---- MODULE Spec2Model ----
(***************************************************************************)
(* Model of the client-side caches of iot-data-sandbox-ui: the projects    *)
(* store (src/src/stores/projects.ts) with its loadProject pipeline, the   *)
(* layers store (src/unnamed/part_001, stores/layers.ts) and the remote    *)
(* service they talk to through apiService (src/src/api/apiService.ts).    *)
(*                                                                         *)
(* Execution is single threaded: a step of the model is either one         *)
(* synchronous store call, the synchronous prefix of an async store        *)
(* function (up to its first await), the server handling one request, or   *)
(* the delivery of one response together with every continuation that      *)
(* runs from it up to the next network await.                               *)
(***************************************************************************)
EXTENDS Integers, Sequences, FiniteSets, TLC

\* ---------------------------------------------------------------- bounds
MaxProjectId == 2
MaxLayerId == 1
MaxTasks == 2
MaxOps == 3
\* store calls made in a run where calls may overlap
MaxOverlappingOps == 2
MaxDataSourceId == 1
\* the time runs in ticks of 100 ms up to MaxTime ticks
MaxTime == 4
\* the 300 ms of the timer of handleRemoveProject, in ticks
ConfirmDelay == 3

ProjectIds == 0..MaxProjectId
LayerIds == 0..MaxLayerId
Tasks == 1..MaxTasks
InitialProjectIds == 0..(MaxProjectId - 1)
InitialLayerIds == 0..(MaxLayerId - 1)
DataSourceIds == 0..MaxDataSourceId
InitialDataSourceIds == 0..(MaxDataSourceId - 1)

\* ------------------------------------------------------- values and records
\* JavaScript null for an id (number | null)
Null == -1
\* JavaScript null for error (string | null)
NullStr == "null"

ProjectResponse(p) == [project_id |-> p]
\* the colours of the palette; a new layer has the first one and is visible
Colors == {"red", "blue"}
DefaultColor == "red"
LayerResponse(l, p) ==
  [data_layer_id |-> l, project_id |-> p, color |-> DefaultColor, is_visible |-> TRUE]
\* what the service derives from an uploaded csv file: row_count, start_time
\* and end_time of its series
DefaultFile == [row_count |-> 7, start_time |-> "t0", end_time |-> "t7"]
Files == {DefaultFile, [row_count |-> 1, start_time |-> "t3", end_time |-> "t3"]}
DataSourceMetadata(d) ==
  [data_source_id |-> d, type |-> "csv", row_count |-> DefaultFile.row_count,
   start_time |-> DefaultFile.start_time, end_time |-> DefaultFile.end_time]
\* the response to an upload of file f that got the id d
UploadResponse(d, f) ==
  [data_source_id |-> d, row_count |-> f.row_count, start_time |-> f.start_time,
   end_time |-> f.end_time]
NoUpload == UploadResponse(-1, DefaultFile)
\* currentProject = null / currentLayer = null
NullProject == ProjectResponse(Null)
NullLayer == LayerResponse(Null, Null)
NullDataSource == DataSourceMetadata(Null)
\* absent entry of the layerDataCache Map (Map.get gives undefined)
NoData == -1
\* row_count values a DataQueryResponse can carry (0 is a valid empty series)
RowCounts == {0, 7}

\* ------------------------------------------------------------ the variables
VARIABLES
  projects, currentProject, loading, error, selectedProjectId, selectedLayerId,
  layers, currentLayer, layersLoading, layersError, layerDataCache,
  srvProjects, srvLayers, srvData, srvUsedProjects, srvUsedLayers,
  tasks, lastOp, opCount, overlapping,
  \* the datasources store
  dataSources, currentDataSource, dsLoading, dsError,
  \* LayerManager: the metadata of each layer, and the layers whose metadata
  \* is being fetched or could not be fetched
  layerMetadata, loadingMetadata, failedMetadata,
  \* the remote service: colour and visibility of each layer, the datasources
  srvColor, srvVisible, srvDataSources, srvUsedDataSources, srvDsStats,
  \* ModalNewProject: the refs of the New Project dialog
  isCreating, createError, modalOpen, selectedFile,
  \* ResizablePanel: the refs of the Manage Projects dialog, the timers that
  \* setTimeout has started and not yet run, and the time in ticks
  panelOpen, isLoading, panelError, deletingProjectId, confirmingDeleteId,
  canConfirmDelete, timers, now, confirmedAt

projVars == <<projects, currentProject, loading, error, selectedProjectId, selectedLayerId>>
layerVars == <<layers, currentLayer, layersLoading, layersError, layerDataCache>>
dsVars == <<dataSources, currentDataSource, dsLoading, dsError>>
metaVars == <<layerMetadata, loadingMetadata, failedMetadata>>
srvStyleVars == <<srvColor, srvVisible>>
srvDsVars == <<srvDataSources, srvUsedDataSources, srvDsStats>>
srvVars == <<srvProjects, srvLayers, srvData, srvUsedProjects, srvUsedLayers,
             srvStyleVars, srvDsVars>>
modalVars == <<isCreating, createError, modalOpen, selectedFile>>
panelVars == <<panelOpen, isLoading, panelError, deletingProjectId, confirmingDeleteId,
               canConfirmDelete, timers, now, confirmedAt>>
uiVars == <<modalVars, panelVars>>
vars == <<projVars, layerVars, dsVars, metaVars, uiVars, srvVars, tasks, lastOp, opCount,
          overlapping>>

\* ------------------------------------------------------------------ helpers
RECURSIVE SetToSeq(_)
\* ascending list of a finite set of integers (the order the server lists in)
SetToSeq(S) ==
  IF S = {} THEN <<>>
  ELSE LET m == CHOOSE x \in S : \A y \in S : x <= y
       IN <<m>> \o SetToSeq(S \ {m})

\* Array.prototype.findIndex on project_id; 0 stands for -1 (sequences are 1-based)
FindProjectIndex(ps, id) ==
  IF \E i \in 1..Len(ps) : ps[i].project_id = id
  THEN CHOOSE i \in 1..Len(ps) :
         /\ ps[i].project_id = id
         /\ \A j \in 1..(i - 1) : ps[j].project_id # id
  ELSE 0

\* Array.prototype.findIndex on data_layer_id; 0 stands for -1
FindLayerIndex(ls, id) ==
  IF \E i \in 1..Len(ls) : ls[i].data_layer_id = id
  THEN CHOOSE i \in 1..Len(ls) :
         /\ ls[i].data_layer_id = id
         /\ \A j \in 1..(i - 1) : ls[j].data_layer_id # id
  ELSE 0

\* `if (index !== -1) layers.value[index] = layer; else layers.value.push(layer)`
UpsertLayer(ls, layer, id) ==
  LET index == FindLayerIndex(ls, id)
  IN IF index # 0 THEN [ls EXCEPT ![index] = layer] ELSE Append(ls, layer)

\* `if (index !== -1) layers.value[index] = layer`
ReplaceLayer(ls, layer, id) ==
  LET index == FindLayerIndex(ls, id)
  IN IF index # 0 THEN [ls EXCEPT ![index] = layer] ELSE ls

\* `if (currentLayer.value?.data_layer_id === id) currentLayer.value = layer`
ReplaceCurrentLayer(current, layer, id) ==
  IF current.data_layer_id = id THEN layer ELSE current

\* Array.prototype.find on project_id, then `project || null`
FindProject(ps, id) ==
  LET i == FindProjectIndex(ps, id)
  IN IF i = 0 THEN NullProject ELSE ps[i]

\* the find-index-then-replace-or-push of fetchProject / loadProject
UpsertProject(ps, project, id) ==
  LET index == FindProjectIndex(ps, id)
  IN IF index # 0 THEN [ps EXCEPT ![index] = project] ELSE Append(ps, project)

\* projects.value.filter(p => p.project_id !== id)
RemoveProject(ps, id) == SelectSeq(ps, LAMBDA p : p.project_id # id)

\* dataSources.value.filter(ds => ds.data_source_id !== id)
RemoveDataSource(ds, id) == SelectSeq(ds, LAMBDA d : d.data_source_id # id)

\* layers.value.filter(l => l.data_layer_id !== id)
RemoveLayer(ls, id) == SelectSeq(ls, LAMBDA l : l.data_layer_id # id)

\* `projects.value[0]?.project_id || null`: 0 is falsy in JavaScript
FirstProjectIdOrNull(ps) ==
  IF Len(ps) = 0 THEN Null
  ELSE IF ps[1].project_id = 0 THEN Null ELSE ps[1].project_id

\* ApiServiceError.message built by the response interceptor
ErrorMessage(status) ==
  IF status = 0 THEN "No response received from server" ELSE "not found"

\* The AxiosError the response interceptor is given.  A server error has a
\* response with its status; a transport error and a client-side timeout
\* have a request but no response; a request that could not be built has
\* neither.
AxiosError(cause, status) ==
  [response |-> cause = "server",
   request |-> cause \in {"server", "transport", "timeout"},
   status |-> IF cause = "server" THEN status ELSE 0,
   message |-> IF cause = "timeout" THEN "timeout of 30000ms exceeded"
               ELSE IF cause = "transport" THEN "Network Error"
               ELSE IF cause = "server" THEN "Request failed"
               ELSE "Invalid URL"]

\* the ApiServiceError the response interceptor throws: its status and message
ApiServiceError(axiosError) ==
  IF axiosError.response
  THEN [status |-> axiosError.status, message |-> ErrorMessage(axiosError.status)]
  ELSE IF axiosError.request
  THEN [status |-> 0, message |-> "No response received from server"]
  ELSE [status |-> 0, message |-> axiosError.message]

\* the Error IoTDataSandboxClient.fetch throws; a plain Error has no status
ClientError(cause, status) ==
  IF cause = "server" THEN [status |-> status, message |-> "API Error"]
  ELSE IF cause = "timeout" THEN [status |-> Null, message |-> "Request timeout"]
  ELSE [status |-> Null, message |-> "Failed to fetch"]

\* ------------------------------------------------------------------ gateway
\* One Gateway call.  st is "sent" until the remote service (or the network)
\* has produced the outcome, then "ok" with a body or "err" with an HTTP status
\* (0 when no response was received); once the outcome has been delivered to
\* the awaiting store function it is "resolved" or "rejected".
Call(st, status, ps, ls, rows) ==
  [st |-> st, status |-> status, projects |-> ps, layers |-> ls, rows |-> rows,
   data_sources |-> <<>>, upload |-> NoUpload,
   \* what happened to the request when it failed
   cause |-> IF st # "err" THEN "none" ELSE IF status = 0 THEN "transport" ELSE "server"]
NoCall == Call("none", 0, <<>>, <<>>, NoData)
Sent == Call("sent", 0, <<>>, <<>>, NoData)
Ok(ps, ls, rows) == Call("ok", 200, ps, ls, rows)
Err(status) == Call("err", status, <<>>, <<>>, NoData)
\* UploadResponse
OkUpload(r) == [Ok(<<>>, <<>>, NoData) EXCEPT !.upload = r]
\* DataSourceListResponse
OkDataSources(ds) == [Ok(<<>>, <<>>, NoData) EXCEPT !.data_sources = ds]
\* the call as it is once its outcome has been delivered
Delivered(call) ==
  [call EXCEPT !.st = IF @ = "ok" THEN "resolved" ELSE IF @ = "err" THEN "rejected" ELSE @]
IsDelivered(call) == call.st \in {"resolved", "rejected"}

\* One invocation of an async store function: the function, its argument,
\* the await it is (or was last) suspended at, whether it is still running or
\* how it ended, and its calls.  A finished invocation stays in its slot
\* until the next store call.
Task(op, id, pc) ==
  [op |-> op, id |-> id, pc |-> pc, state |-> "running", call |-> Sent,
   \* the second argument of updateLayerColor and of updateLayerVisibility
   color |-> DefaultColor, isVisible |-> TRUE,
   \* the file of uploadDataSource
   file |-> DefaultFile,
   \* `project` of handleCreate: the id of the project it has created
   project |-> Null,
   \* locals of loadProject: the getProjectLayers call, the getLayer calls of
   \* stage 3, validLayers, and the getLayerData calls of stage 4
   layersCall |-> NoCall, layerDetails |-> <<>>, validLayers |-> <<>>, dataCalls |-> <<>>]
NoTask == [Task("none", Null, "none") EXCEPT !.state = "resolved", !.call = NoCall]

\* the last thing the client did: the store function, its argument, and
\* whether it returned, suspended at a call, or settled
Op(op, id, ev) == [op |-> op, id |-> id, ev |-> ev]

Running(t) == tasks[t].state = "running"

FreeTask(t) ==
  /\ ~Running(t)
  /\ \A u \in 1..(t - 1) : Running(u)

\* no async store function is in flight
Quiescent == \A t \in Tasks : ~Running(t)

\* A store function can be called: at any time when the callers let calls
\* overlap, else only once every earlier async call has settled.
CanStart ==
  IF overlapping THEN opCount < MaxOverlappingOps
  ELSE opCount < MaxOps /\ Quiescent

\* the next store call finds the settled invocations gone (their promises
\* have been consumed by the caller)
Forget(ts) == [t \in Tasks |-> IF ts[t].state = "running" THEN ts[t] ELSE NoTask]

\* the invocation in slot t ends
Finish(t, state) == [tasks EXCEPT ![t].state = state, ![t].call = Delivered(tasks[t].call)]

\* --------------------------------------------------------------------- Init
\* The stores as constructed (empty).  The remote service already holds every
\* project and layer id but the last (kept for a later create), the layers in
\* project 0 (the other projects are empty until createLayer is called for
\* them); the even layers have a time series, the odd ones point at a
\* datasource that no longer exists.
InitClient ==
  /\ projects = <<>>
  /\ currentProject = NullProject
  /\ loading = FALSE
  /\ error = NullStr
  /\ selectedProjectId = Null
  /\ selectedLayerId = Null
  /\ layers = <<>>
  /\ currentLayer = NullLayer
  /\ layersLoading = FALSE
  /\ layersError = NullStr
  /\ layerDataCache = [l \in LayerIds |-> NoData]
  /\ dataSources = <<>>
  /\ currentDataSource = NullDataSource
  /\ dsLoading = FALSE
  /\ dsError = NullStr
  /\ layerMetadata = [l \in LayerIds |-> NoData]
  /\ loadingMetadata = {}
  /\ failedMetadata = {}
  /\ tasks = [t \in Tasks |-> NoTask]
  /\ lastOp = Op("init", Null, "init")
  /\ opCount = 0
  \* ModalNewProject: the dialog is closed, no file has been chosen
  /\ isCreating = FALSE
  /\ createError = NullStr
  /\ modalOpen = FALSE
  /\ selectedFile = FALSE
  \* ResizablePanel: the dialog is closed, no timer has been started
  /\ panelOpen = FALSE
  /\ isLoading = FALSE
  /\ panelError = NullStr
  /\ deletingProjectId = Null
  /\ confirmingDeleteId = Null
  /\ canConfirmDelete = FALSE
  /\ timers = {}
  /\ now = 0
  /\ confirmedAt = 0

\* the remote service, but for the time series
InitServiceRecords ==
  /\ srvProjects = InitialProjectIds
  /\ srvLayers = [l \in LayerIds |-> IF l \in InitialLayerIds THEN 0 ELSE Null]
  /\ srvUsedProjects = srvProjects
  /\ srvUsedLayers = InitialLayerIds
  /\ srvColor = [l \in LayerIds |-> DefaultColor]
  /\ srvVisible = [l \in LayerIds |-> TRUE]
  /\ srvDataSources = InitialDataSourceIds
  /\ srvUsedDataSources = InitialDataSourceIds
  /\ srvDsStats = [d \in DataSourceIds |-> DefaultFile]

InitService ==
  /\ InitServiceRecords
  /\ srvData = [l \in LayerIds |-> IF l \in InitialLayerIds /\ l % 2 = 0 THEN 7 ELSE NoData]

\* the datasources the layers point at have all been deleted
InitServiceOrphans ==
  /\ InitServiceRecords
  /\ srvData = [l \in LayerIds |-> NoData]

InitStores == InitClient /\ InitService

Init == InitStores /\ overlapping = TRUE
InitSeq == InitStores /\ overlapping = FALSE
\* the layers are orphans to begin with, or not
InitMeta == InitClient /\ (InitService \/ InitServiceOrphans) /\ overlapping = FALSE

\* ------------------------------------------------- projects store, synchronous
\* the layer selection is dropped on every call
ClearsSelectedLayerAlways(id, previousId) == TRUE

\* `if (id === null || id !== previousId)`: the layer selection is dropped
ClearsSelectedLayer(id, previousId) == id = Null \/ id # previousId

\* setSelectedProjectId(id)
SetSelectedProjectId(id) ==
  /\ CanStart
  /\ selectedProjectId' = id
  /\ currentProject' = IF id # Null THEN FindProject(projects, id) ELSE NullProject
  /\ selectedLayerId' = IF ClearsSelectedLayer(id, selectedProjectId) THEN Null ELSE selectedLayerId
  /\ lastOp' = Op("setSelectedProjectId", id, "return")
  /\ opCount' = opCount + 1 /\ UNCHANGED overlapping
  /\ tasks' = Forget(tasks)
  /\ UNCHANGED <<projects, loading, error, layerVars, srvVars, dsVars, metaVars, uiVars>>

\* setSelectedLayerId(id)
SetSelectedLayerId(id) ==
  /\ CanStart
  /\ selectedLayerId' = id
  /\ lastOp' = Op("setSelectedLayerId", id, "return")
  /\ opCount' = opCount + 1 /\ UNCHANGED overlapping
  /\ tasks' = Forget(tasks)
  /\ UNCHANGED <<projects, currentProject, loading, error, selectedProjectId,
                 layerVars, srvVars, dsVars, metaVars, uiVars>>

\* ------------------------------------------------------ the remote service
\* the invocation in slot t waits for the outcome of the call it made at pc
Awaiting(t, op, pc) ==
  /\ Running(t)
  \* the store function, or handleCreate of ModalNewProject, which makes
  \* the same calls without the stores
  /\ tasks[t].op \in {op, "handleCreate"}
  /\ tasks[t].pc = pc

Answer(t, call) ==
  /\ tasks' = [tasks EXCEPT ![t].call = call]
  /\ UNCHANGED <<projVars, layerVars, lastOp, opCount, overlapping, dsVars, metaVars, uiVars>>

ServerLayersOf(p) == {l \in LayerIds : srvLayers[l] = p}

\* the record of layer l as the service holds it
ServerLayer(l) ==
  [LayerResponse(l, srvLayers[l]) EXCEPT !.color = srvColor[l], !.is_visible = srvVisible[l]]

\* GET /api/projects
SrvListProjects(t) ==
  /\ Awaiting(t, "fetchProjects", "listProjects")
  /\ tasks[t].call.st = "sent"
  /\ Answer(t, Ok([i \in 1..Cardinality(srvProjects) |->
                    ProjectResponse(SetToSeq(srvProjects)[i])], <<>>, NoData))
  /\ UNCHANGED srvVars

\* POST /api/projects: the service assigns an id it has never used
SrvCreateProject(t) ==
  /\ Awaiting(t, "createProject", "createProject")
  /\ tasks[t].call.st = "sent"
  /\ \E p \in ProjectIds \ srvUsedProjects :
       /\ srvProjects' = srvProjects \cup {p}
       /\ srvUsedProjects' = srvUsedProjects \cup {p}
       /\ Answer(t, Ok(<<ProjectResponse(p)>>, <<>>, NoData))
  /\ UNCHANGED <<srvLayers, srvData, srvUsedLayers, srvStyleVars, srvDsVars>>

\* GET /api/projects/{id}
SrvGetProject(t) ==
  /\ Awaiting(t, "loadProject", "getProject")
  /\ tasks[t].call.st = "sent"
  /\ Answer(t, IF tasks[t].id \in srvProjects
               THEN Ok(<<ProjectResponse(tasks[t].id)>>, <<>>, NoData)
               ELSE Err(404))
  /\ UNCHANGED srvVars

\* DELETE /api/projects/{id}: the project goes, and its layers with it
SrvDeleteProject(t) ==
  /\ Awaiting(t, "deleteProject", "deleteProject")
  /\ tasks[t].call.st = "sent"
  /\ LET id == tasks[t].id IN
       IF id \in srvProjects
       THEN /\ srvProjects' = srvProjects \ {id}
            /\ srvLayers' = [l \in LayerIds |-> IF srvLayers[l] = id THEN Null ELSE srvLayers[l]]
            /\ srvData' = [l \in LayerIds |-> IF srvLayers[l] = id THEN NoData ELSE srvData[l]]
            /\ Answer(t, Ok(<<>>, <<>>, NoData))
       ELSE /\ UNCHANGED <<srvProjects, srvLayers, srvData>>
            /\ Answer(t, Err(404))
  /\ UNCHANGED <<srvUsedProjects, srvUsedLayers, srvStyleVars, srvDsVars>>

\* GET /api/projects/{id}/layers
SrvGetProjectLayers(t) ==
  /\ Awaiting(t, "loadProject", "getProjectLayers")
  /\ tasks[t].layersCall.st = "sent"
  /\ LET id == tasks[t].id
         ls == SetToSeq(ServerLayersOf(id))
     IN tasks' = [tasks EXCEPT ![t].layersCall =
                    IF id \in srvProjects
                    THEN Ok(<<>>, [i \in 1..Len(ls) |-> ServerLayer(ls[i])], NoData)
                    ELSE Err(404)]
  /\ UNCHANGED <<projVars, layerVars, srvVars, lastOp, opCount, overlapping, dsVars, metaVars, uiVars>>

\* POST /api/projects/{id}/layers: a new layer, bound to no datasource yet
SrvCreateLayer(t) ==
  /\ Awaiting(t, "createLayer", "createLayer")
  /\ tasks[t].call.st = "sent"
  /\ LET id == tasks[t].id IN
       IF id \in srvProjects
       THEN \E l \in LayerIds \ srvUsedLayers :
              /\ srvLayers' = [srvLayers EXCEPT ![l] = id]
              /\ srvUsedLayers' = srvUsedLayers \cup {l}
              /\ Answer(t, Ok(<<>>, <<LayerResponse(l, id)>>, NoData))
       ELSE /\ UNCHANGED <<srvLayers, srvUsedLayers>>
            /\ Answer(t, Err(404))
  /\ UNCHANGED <<srvProjects, srvData, srvUsedProjects, srvStyleVars, srvDsVars>>

\* GET /api/layers/{id}, for the i-th call of the stage-3 fan-out
SrvGetLayer(t, i) ==
  /\ Awaiting(t, "loadProject", "getLayer")
  /\ i \in 1..Len(tasks[t].layerDetails)
  /\ tasks[t].layerDetails[i].st = "sent"
  /\ LET l == tasks[t].layersCall.layers[i].data_layer_id IN
       tasks' = [tasks EXCEPT ![t].layerDetails[i] =
                   IF srvLayers[l] # Null
                   THEN Ok(<<>>, <<ServerLayer(l)>>, NoData)
                   ELSE Err(404)]
  /\ UNCHANGED <<projVars, layerVars, srvVars, lastOp, opCount, overlapping, dsVars, metaVars, uiVars>>

\* DELETE /api/layers/{id}
SrvDeleteLayer(t) ==
  /\ Awaiting(t, "deleteLayer", "deleteLayer")
  /\ tasks[t].call.st = "sent"
  /\ LET id == tasks[t].id IN
       IF srvLayers[id] # Null
       THEN /\ srvLayers' = [srvLayers EXCEPT ![id] = Null]
            /\ srvData' = [srvData EXCEPT ![id] = NoData]
            /\ Answer(t, Ok(<<>>, <<>>, NoData))
       ELSE /\ UNCHANGED <<srvLayers, srvData>>
            /\ Answer(t, Err(404))
  /\ UNCHANGED <<srvProjects, srvUsedProjects, srvUsedLayers, srvStyleVars, srvDsVars>>

\* GET /api/layers/{id}/data, for the i-th call of the stage-4 fan-out: 404
\* when the layer or the datasource it points at does not exist
SrvGetLayerData(t, i) ==
  /\ Awaiting(t, "loadProject", "getLayerData")
  /\ i \in 1..Len(tasks[t].dataCalls)
  /\ tasks[t].dataCalls[i].st = "sent"
  /\ LET l == tasks[t].validLayers[i].data_layer_id IN
       tasks' = [tasks EXCEPT ![t].dataCalls[i] =
                   IF srvData[l] # NoData THEN Ok(<<>>, <<>>, srvData[l]) ELSE Err(404)]
  /\ UNCHANGED <<projVars, layerVars, srvVars, lastOp, opCount, overlapping, dsVars, metaVars, uiVars>>

\* A request or its response is lost: the call fails with status 0 whether or
\* not the service has handled it.
Lost(call) == IF call.st \in {"sent", "ok"} THEN Err(0) ELSE call

\* the client-side timeout of the call fires
TimedOut(call) ==
  IF call.st \in {"sent", "ok"}
  THEN [Err(ApiServiceError(AxiosError("timeout", 0)).status) EXCEPT !.cause = "timeout"]
  ELSE call

Timeout(t) ==
  /\ Running(t)
  /\ tasks[t].call.st \in {"sent", "ok"}
  /\ tasks' = [tasks EXCEPT ![t].call = TimedOut(@)]
  /\ UNCHANGED <<projVars, layerVars, srvVars, lastOp, opCount, overlapping, dsVars, metaVars, uiVars>>

NetworkFailure(t) ==
  /\ Running(t)
  /\ \/ /\ tasks[t].call.st \in {"sent", "ok"}
        /\ tasks' = [tasks EXCEPT ![t].call = Lost(@)]
     \/ /\ tasks[t].layersCall.st \in {"sent", "ok"}
        /\ tasks' = [tasks EXCEPT ![t].layersCall = Lost(@)]
     \/ \E i \in 1..Len(tasks[t].layerDetails) :
          /\ tasks[t].pc = "getLayer"
          /\ tasks[t].layerDetails[i].st \in {"sent", "ok"}
          /\ tasks' = [tasks EXCEPT ![t].layerDetails[i] = Lost(@)]
     \/ \E i \in 1..Len(tasks[t].dataCalls) :
          /\ tasks[t].dataCalls[i].st \in {"sent", "ok"}
          /\ tasks' = [tasks EXCEPT ![t].dataCalls[i] = Lost(@)]
  /\ UNCHANGED <<projVars, layerVars, srvVars, lastOp, opCount, overlapping, dsVars, metaVars, uiVars>>

\* ------------------------------------------------ projects store, asynchronous
\* the outcome of the call made at pc is there to be delivered
Settling(t, op, pc) ==
  /\ Running(t)
  /\ tasks[t].op = op
  /\ tasks[t].pc = pc
  /\ tasks[t].call.st \in {"ok", "err"}

\* an async store function is called and suspends at its first call
StartTask(T) ==
  /\ \E t \in Tasks :
       /\ FreeTask(t)
       /\ tasks' = [Forget(tasks) EXCEPT ![t] = T]
  /\ lastOp' = Op(T.op, T.id, "call")
  /\ opCount' = opCount + 1
  /\ UNCHANGED overlapping

\* an async store function is called and suspends at the call pc
Start(op, id, pc) == StartTask(Task(op, id, pc))

\* the first lines of every async function of the projects store
EnterProjectsStore ==
  /\ loading' = TRUE
  /\ error' = NullStr

\* fetchProjects(), up to `await apiService.listProjects()`
FetchProjects ==
  /\ CanStart
  /\ EnterProjectsStore
  /\ Start("fetchProjects", Null, "listProjects")
  /\ UNCHANGED <<projects, currentProject, selectedProjectId, selectedLayerId, layerVars, srvVars, dsVars, metaVars, uiVars>>

\* fetchProjects(), from the response on
FetchProjectsSettle(t) ==
  /\ Settling(t, "fetchProjects", "listProjects")
  /\ LET response == tasks[t].call IN
       IF response.st = "ok"
       THEN /\ projects' = response.projects
            /\ error' = error
            /\ tasks' = Finish(t, "resolved")
            /\ lastOp' = Op("fetchProjects", Null, "resolved")
       ELSE /\ projects' = projects
            /\ error' = ErrorMessage(response.status)
            /\ tasks' = Finish(t, "rejected")
            /\ lastOp' = Op("fetchProjects", Null, "rejected")
  /\ loading' = FALSE
  /\ UNCHANGED <<currentProject, selectedProjectId, selectedLayerId, layerVars, srvVars, opCount, overlapping, dsVars, metaVars, uiVars>>

\* createProject(data), up to `await apiService.createProject(data)`
CreateProject ==
  /\ CanStart
  /\ EnterProjectsStore
  /\ Start("createProject", Null, "createProject")
  /\ UNCHANGED <<projects, currentProject, selectedProjectId, selectedLayerId, layerVars, srvVars, dsVars, metaVars, uiVars>>

\* createProject(data), from the response on
CreateProjectSettle(t) ==
  /\ Settling(t, "createProject", "createProject")
  /\ LET response == tasks[t].call IN
       IF response.st = "ok"
       THEN /\ projects' = Append(projects, response.projects[1])
            /\ currentProject' = response.projects[1]
            /\ error' = error
            /\ tasks' = Finish(t, "resolved")
            /\ lastOp' = Op("createProject", response.projects[1].project_id, "resolved")
       ELSE /\ UNCHANGED <<projects, currentProject>>
            /\ error' = ErrorMessage(response.status)
            /\ tasks' = Finish(t, "rejected")
            /\ lastOp' = Op("createProject", Null, "rejected")
  /\ loading' = FALSE
  /\ UNCHANGED <<selectedProjectId, selectedLayerId, layerVars, srvVars, opCount, overlapping, dsVars, metaVars, uiVars>>

\* deleteProject(id), up to `await apiService.deleteProject(id)`
DeleteProject(id) ==
  /\ CanStart
  /\ EnterProjectsStore
  /\ Start("deleteProject", id, "deleteProject")
  /\ UNCHANGED <<projects, currentProject, selectedProjectId, selectedLayerId, layerVars, srvVars, dsVars, metaVars, uiVars>>

\* deleteProject(id), from the response on
DeleteProjectSettle(t) ==
  /\ Settling(t, "deleteProject", "deleteProject")
  /\ LET response == tasks[t].call
         id == tasks[t].id
         remaining == RemoveProject(projects, id)
     IN
       IF response.st = "ok"
       THEN /\ projects' = remaining
            /\ currentProject' = IF currentProject.project_id = id THEN NullProject ELSE currentProject
            /\ IF selectedProjectId = id
               THEN /\ selectedProjectId' = IF Len(remaining) > 0
                                            THEN FirstProjectIdOrNull(remaining)
                                            ELSE Null
                    /\ selectedLayerId' = Null
               ELSE UNCHANGED <<selectedProjectId, selectedLayerId>>
            /\ error' = error
            /\ tasks' = Finish(t, "resolved")
            /\ lastOp' = Op("deleteProject", id, "resolved")
       ELSE /\ UNCHANGED <<projects, currentProject, selectedProjectId, selectedLayerId>>
            /\ error' = ErrorMessage(response.status)
            /\ tasks' = Finish(t, "rejected")
            /\ lastOp' = Op("deleteProject", id, "rejected")
  /\ loading' = FALSE
  /\ UNCHANGED <<layerVars, srvVars, opCount, overlapping, dsVars, metaVars, uiVars>>

\* -------------------------------------------------------------- layers store
\* the new layers are added to the ones already held
SetLayersMerging(newLayers) == layers' = layers \o newLayers

\* setLayers(newLayers)
SetLayers(newLayers) == layers' = newLayers

\* the first lines of every async function of the layers store
EnterLayersStore ==
  /\ layersLoading' = TRUE
  /\ layersError' = NullStr

\* createLayer(projectId, data), up to `await apiService.createLayer(...)`
CreateLayer(projectId) ==
  /\ CanStart
  /\ EnterLayersStore
  /\ Start("createLayer", projectId, "createLayer")
  /\ UNCHANGED <<projVars, layers, currentLayer, layerDataCache, srvVars, dsVars, metaVars, uiVars>>

\* createLayer(projectId, data), from the response on
CreateLayerSettle(t) ==
  /\ Settling(t, "createLayer", "createLayer")
  /\ LET response == tasks[t].call IN
       IF response.st = "ok"
       THEN /\ layers' = Append(layers, response.layers[1])
            /\ currentLayer' = response.layers[1]
            /\ layersError' = layersError
            /\ tasks' = Finish(t, "resolved")
            /\ lastOp' = Op("createLayer", response.layers[1].data_layer_id, "resolved")
       ELSE /\ UNCHANGED <<layers, currentLayer>>
            /\ layersError' = ErrorMessage(response.status)
            /\ tasks' = Finish(t, "rejected")
            /\ lastOp' = Op("createLayer", tasks[t].id, "rejected")
  /\ layersLoading' = FALSE
  /\ UNCHANGED <<projVars, layerDataCache, srvVars, opCount, overlapping, dsVars, metaVars, uiVars>>

\* deleteLayer(id), up to `await apiService.deleteLayer(id)`
DeleteLayer(id) ==
  /\ CanStart
  /\ EnterLayersStore
  /\ Start("deleteLayer", id, "deleteLayer")
  /\ UNCHANGED <<projVars, layers, currentLayer, layerDataCache, srvVars, dsVars, metaVars, uiVars>>

\* deleteLayer(id), from the response on
DeleteLayerSettle(t) ==
  /\ Settling(t, "deleteLayer", "deleteLayer")
  /\ LET response == tasks[t].call
         id == tasks[t].id
     IN
       IF response.st = "ok"
       THEN /\ layers' = RemoveLayer(layers, id)
            /\ currentLayer' = IF currentLayer.data_layer_id = id THEN NullLayer ELSE currentLayer
            /\ layersError' = layersError
            /\ tasks' = Finish(t, "resolved")
            /\ lastOp' = Op("deleteLayer", id, "resolved")
       ELSE /\ UNCHANGED <<layers, currentLayer>>
            /\ layersError' = ErrorMessage(response.status)
            /\ tasks' = Finish(t, "rejected")
            /\ lastOp' = Op("deleteLayer", id, "rejected")
  /\ layersLoading' = FALSE
  /\ UNCHANGED <<projVars, layerDataCache, srvVars, opCount, overlapping, dsVars, metaVars, uiVars>>

\* --------------------------------------------------------------- loadProject
\* the project is selected before its record has been fetched
LoadProjectSelectsAtCall(id) ==
  /\ CanStart
  /\ EnterProjectsStore
  /\ Start("loadProject", id, "getProject")
  /\ selectedProjectId' = id
  /\ UNCHANGED <<projects, currentProject, selectedLayerId, layerVars, srvVars, dsVars, metaVars, uiVars>>

\* loadProject(id), up to `await apiService.getProject(id)`
LoadProject(id) ==
  /\ CanStart
  /\ EnterProjectsStore
  /\ Start("loadProject", id, "getProject")
  /\ UNCHANGED <<projects, currentProject, selectedProjectId, selectedLayerId, layerVars, srvVars, dsVars, metaVars, uiVars>>

\* the error is rethrown without being recorded
LoadProjectRejectedSilently(t, err) ==
  /\ error' = error
  /\ loading' = FALSE
  /\ lastOp' = Op("loadProject", tasks[t].id, "rejected")

\* the catch and finally blocks of loadProject
LoadProjectRejected(t, err) ==
  /\ error' = ErrorMessage(err.status)
  /\ loading' = FALSE
  /\ lastOp' = Op("loadProject", tasks[t].id, "rejected")

\* the finally block of loadProject on a normal return
LoadProjectResolved(t) ==
  /\ loading' = FALSE
  /\ lastOp' = Op("loadProject", tasks[t].id, "resolved")

\* loadProject(id), from the getProject response to
\* `await apiService.getProjectLayers(id)`
LoadProjectStage1(t) ==
  /\ Settling(t, "loadProject", "getProject")
  /\ LET response == tasks[t].call
         id == tasks[t].id
     IN
       IF response.st = "ok"
       THEN LET project == response.projects[1] IN
            /\ currentProject' = project
            /\ selectedProjectId' = id
            /\ projects' = UpsertProject(projects, project, id)
            /\ tasks' = [tasks EXCEPT ![t].pc = "getProjectLayers",
                           ![t].call = Delivered(@), ![t].layersCall = Sent]
            /\ lastOp' = Op("loadProject", id, "getProjectLayers")
            /\ UNCHANGED <<loading, error>>
       ELSE /\ LoadProjectRejected(t, response)
            /\ tasks' = Finish(t, "rejected")
            /\ UNCHANGED <<projects, currentProject, selectedProjectId>>
  /\ UNCHANGED <<selectedLayerId, layerVars, srvVars, opCount, overlapping, dsVars, metaVars, uiVars>>

\* loadProject(id), from the getProjectLayers response to the Promise.all of
\* the getLayer calls
LoadProjectStage2(t) ==
  /\ Awaiting(t, "loadProject", "getProjectLayers")
  /\ tasks[t].layersCall.st \in {"ok", "err"}
  /\ LET layersResponse == tasks[t].layersCall
         id == tasks[t].id
     IN
       IF layersResponse.st = "ok"
       THEN IF Len(layersResponse.layers) = 0
            THEN /\ SetLayers(<<>>)
                 /\ LoadProjectResolved(t)
                 /\ tasks' = [tasks EXCEPT ![t].state = "resolved", ![t].layersCall = Delivered(@)]
                 /\ UNCHANGED error
            ELSE /\ tasks' = [tasks EXCEPT ![t].pc = "getLayer", ![t].layersCall = Delivered(@),
                                ![t].layerDetails = [i \in 1..Len(layersResponse.layers) |-> Sent]]
                 /\ lastOp' = Op("loadProject", id, "getLayer")
                 /\ UNCHANGED <<loading, error, layers>>
       ELSE /\ LoadProjectRejected(t, layersResponse)
            /\ tasks' = [tasks EXCEPT ![t].state = "rejected", ![t].layersCall = Delivered(@)]
            /\ UNCHANGED layers
  /\ UNCHANGED <<projects, currentProject, selectedProjectId, selectedLayerId,
                 currentLayer, layersLoading, layersError, layerDataCache, srvVars, opCount, overlapping, dsVars, metaVars, uiVars>>

\* the first promise to settle ends the wait
AllOthersSettledAlways(calls, i) == TRUE

\* Promise.all settles with the i-th promise when every other one has settled
\* (none of them rejects: each function passed to map catches its own error)
\* Promise.all never settles
AllOthersSettledNever(calls, i) == FALSE

AllOthersSettled(calls, i) ==
  \A j \in 1..Len(calls) : j # i => IsDelivered(calls[j])

\* one failed getLayer drops every layer
ValidLayersAllOrNothing(layerDetails) ==
  IF \A i \in 1..Len(layerDetails) : layerDetails[i].st = "resolved"
  THEN [i \in 1..Len(layerDetails) |-> layerDetails[i].layers[1]]
  ELSE <<>>

\* layerDetails.filter(layer => layer !== null): a failed getLayer gave null
ValidLayers(layerDetails) ==
  LET ok == SelectSeq(layerDetails, LAMBDA c : c.st = "resolved")
  IN [i \in 1..Len(ok) |-> ok[i].layers[1]]

\* loadProject(id), stage 3: the i-th getLayer call settles; with the last one
\* the layers store is set and the fetchLayerData calls are made
LoadProjectStage3(t, i) ==
  /\ Awaiting(t, "loadProject", "getLayer")
  /\ i \in 1..Len(tasks[t].layerDetails)
  /\ tasks[t].layerDetails[i].st \in {"ok", "err"}
  /\ LET layerDetails == [tasks[t].layerDetails EXCEPT ![i] = Delivered(@)]
         validLayers == ValidLayers(layerDetails)
     IN
       IF AllOthersSettled(tasks[t].layerDetails, i)
       THEN /\ SetLayers(validLayers)
            /\ IF Len(validLayers) = 0
               THEN /\ LoadProjectResolved(t)
                    /\ tasks' = [tasks EXCEPT ![t].state = "resolved",
                                   ![t].layerDetails = layerDetails]
                    /\ UNCHANGED <<layersLoading, layersError>>
               ELSE /\ EnterLayersStore
                    /\ tasks' = [tasks EXCEPT ![t].pc = "getLayerData",
                                   ![t].layerDetails = layerDetails,
                                   ![t].validLayers = validLayers,
                                   ![t].dataCalls = [j \in 1..Len(validLayers) |-> Sent]]
                    /\ lastOp' = Op("loadProject", tasks[t].id, "getLayerData")
                    /\ UNCHANGED loading
       ELSE /\ tasks' = [tasks EXCEPT ![t].layerDetails = layerDetails]
            /\ UNCHANGED <<loading, layers, layersLoading, layersError, lastOp>>
  /\ UNCHANGED <<projects, currentProject, error, selectedProjectId, selectedLayerId,
                 currentLayer, layerDataCache, srvVars, opCount, overlapping, dsVars, metaVars, uiVars>>

\* loadProject(id), stage 4: the i-th fetchLayerData(layer.data_layer_id)
\* settles (its rejection is caught by loadProject); with the last one
\* loadProject returns
LoadProjectStage4(t, i) ==
  /\ Awaiting(t, "loadProject", "getLayerData")
  /\ i \in 1..Len(tasks[t].dataCalls)
  /\ tasks[t].dataCalls[i].st \in {"ok", "err"}
  /\ LET data == tasks[t].dataCalls[i]
         id == tasks[t].validLayers[i].data_layer_id
     IN
       /\ IF data.st = "ok"
          THEN /\ layerDataCache' = [layerDataCache EXCEPT ![id] = data.rows]
               /\ UNCHANGED layersError
          ELSE /\ layersError' = ErrorMessage(data.status)
               /\ UNCHANGED layerDataCache
       /\ layersLoading' = FALSE
       /\ IF AllOthersSettled(tasks[t].dataCalls, i)
          THEN /\ LoadProjectResolved(t)
               /\ tasks' = [tasks EXCEPT ![t].state = "resolved", ![t].dataCalls[i] = Delivered(@)]
          ELSE /\ tasks' = [tasks EXCEPT ![t].dataCalls[i] = Delivered(@)]
               /\ lastOp' = Op("fetchLayerData", id, Delivered(data).st)
               /\ UNCHANGED loading
  /\ UNCHANGED <<projects, currentProject, error, selectedProjectId, selectedLayerId,
                 layers, currentLayer, srvVars, opCount, overlapping, dsVars, metaVars, uiVars>>

\* ------------------------------------------------- remote service, continued
\* GET /api/projects/{id}/layers, for fetchProjectLayers
SrvListProjectLayers(t) ==
  /\ Awaiting(t, "fetchProjectLayers", "getProjectLayers")
  /\ tasks[t].call.st = "sent"
  /\ LET id == tasks[t].id
         ls == SetToSeq(ServerLayersOf(id))
     IN Answer(t, IF id \in srvProjects
                  THEN Ok(<<>>, [i \in 1..Len(ls) |-> ServerLayer(ls[i])], NoData)
                  ELSE Err(404))
  /\ UNCHANGED srvVars

\* GET /api/layers/{id}, for fetchLayer
SrvGetLayerById(t) ==
  /\ Awaiting(t, "fetchLayer", "getLayer")
  /\ tasks[t].call.st = "sent"
  /\ LET id == tasks[t].id IN
       Answer(t, IF srvLayers[id] # Null
                 THEN Ok(<<>>, <<ServerLayer(id)>>, NoData)
                 ELSE Err(404))
  /\ UNCHANGED srvVars

\* PUT /api/layers/{id}/color
SrvUpdateLayerColor(t) ==
  /\ Awaiting(t, "updateLayerColor", "updateLayerColor")
  /\ tasks[t].call.st = "sent"
  /\ LET id == tasks[t].id IN
       IF srvLayers[id] # Null
       THEN /\ srvColor' = [srvColor EXCEPT ![id] = tasks[t].color]
            /\ Answer(t, Ok(<<>>, <<[ServerLayer(id) EXCEPT !.color = tasks[t].color]>>, NoData))
       ELSE /\ UNCHANGED srvColor
            /\ Answer(t, Err(404))
  /\ UNCHANGED <<srvProjects, srvLayers, srvData, srvUsedProjects, srvUsedLayers,
                 srvVisible, srvDsVars>>

\* PUT /api/layers/{id}/visibility
SrvUpdateLayerVisibility(t) ==
  /\ Awaiting(t, "updateLayerVisibility", "updateLayerVisibility")
  /\ tasks[t].call.st = "sent"
  /\ LET id == tasks[t].id IN
       IF srvLayers[id] # Null
       THEN /\ srvVisible' = [srvVisible EXCEPT ![id] = tasks[t].isVisible]
            /\ Answer(t, Ok(<<>>, <<[ServerLayer(id) EXCEPT !.is_visible = tasks[t].isVisible]>>, NoData))
       ELSE /\ UNCHANGED srvVisible
            /\ Answer(t, Err(404))
  /\ UNCHANGED <<srvProjects, srvLayers, srvData, srvUsedProjects, srvUsedLayers,
                 srvColor, srvDsVars>>

\* the record of datasource d as the service holds it
ServerDataSource(d) ==
  [DataSourceMetadata(d) EXCEPT !.row_count = srvDsStats[d].row_count,
                                !.start_time = srvDsStats[d].start_time,
                                !.end_time = srvDsStats[d].end_time]

\* POST /api/datasources: the service assigns an id it has never used
SrvUploadDataSource(t) ==
  /\ Awaiting(t, "uploadDataSource", "uploadDataSource")
  /\ tasks[t].call.st = "sent"
  /\ \E d \in DataSourceIds \ srvUsedDataSources :
       /\ srvDataSources' = srvDataSources \cup {d}
       /\ srvUsedDataSources' = srvUsedDataSources \cup {d}
       /\ srvDsStats' = [srvDsStats EXCEPT ![d] = tasks[t].file]
       /\ Answer(t, OkUpload(UploadResponse(d, tasks[t].file)))
  /\ UNCHANGED <<srvProjects, srvLayers, srvData, srvUsedProjects, srvUsedLayers,
                 srvStyleVars>>

\* GET /api/datasources
SrvListDataSources(t) ==
  /\ Awaiting(t, "fetchDataSources", "listDataSources")
  /\ tasks[t].call.st = "sent"
  /\ LET ds == SetToSeq(srvDataSources) IN
       Answer(t, OkDataSources([i \in 1..Len(ds) |-> ServerDataSource(ds[i])]))
  /\ UNCHANGED srvVars

\* DELETE /api/datasources/{id}
SrvDeleteDataSource(t) ==
  /\ Awaiting(t, "deleteDataSource", "deleteDataSource")
  /\ tasks[t].call.st = "sent"
  /\ LET id == tasks[t].id IN
       IF id \in srvDataSources
       THEN /\ srvDataSources' = srvDataSources \ {id}
            /\ Answer(t, Ok(<<>>, <<>>, NoData))
       ELSE /\ UNCHANGED srvDataSources
            /\ Answer(t, Err(404))
  /\ UNCHANGED <<srvProjects, srvLayers, srvData, srvUsedProjects, srvUsedLayers,
                 srvStyleVars, srvUsedDataSources, srvDsStats>>

\* --------------------------------------------- projects store, fetchProjectLayers
\* fetchProjectLayers(id), up to `await apiService.getProjectLayers(id)`
FetchProjectLayers(id) ==
  /\ CanStart
  /\ EnterProjectsStore
  /\ Start("fetchProjectLayers", id, "getProjectLayers")
  /\ UNCHANGED <<projects, currentProject, selectedProjectId, selectedLayerId,
                 layerVars, srvVars, dsVars, metaVars, uiVars>>

\* the failure is handed to the caller and leaves no message in the store
FetchProjectLayersSettleSilently(t) ==
  /\ Settling(t, "fetchProjectLayers", "getProjectLayers")
  /\ LET response == tasks[t].call
         id == tasks[t].id
     IN
       IF response.st = "ok"
       THEN /\ tasks' = Finish(t, "resolved")
            /\ lastOp' = Op("fetchProjectLayers", id, "resolved")
       ELSE /\ tasks' = Finish(t, "rejected")
            /\ lastOp' = Op("fetchProjectLayers", id, "rejected")
  /\ error' = error
  /\ loading' = FALSE
  /\ UNCHANGED <<projects, currentProject, selectedProjectId, selectedLayerId,
                 layerVars, srvVars, opCount, overlapping, dsVars, metaVars, uiVars>>

\* fetchProjectLayers(id), from the response on: the response is handed to
\* the caller, no cache takes it
FetchProjectLayersSettle(t) ==
  /\ Settling(t, "fetchProjectLayers", "getProjectLayers")
  /\ LET response == tasks[t].call
         id == tasks[t].id
     IN
       IF response.st = "ok"
       THEN /\ error' = error
            /\ tasks' = Finish(t, "resolved")
            /\ lastOp' = Op("fetchProjectLayers", id, "resolved")
       ELSE /\ error' = ErrorMessage(response.status)
            /\ tasks' = Finish(t, "rejected")
            /\ lastOp' = Op("fetchProjectLayers", id, "rejected")
  /\ loading' = FALSE
  /\ UNCHANGED <<projects, currentProject, selectedProjectId, selectedLayerId,
                 layerVars, srvVars, opCount, overlapping, dsVars, metaVars, uiVars>>

\* ------------------------------------------- layers store, fetch and update
\* fetchLayer(id), up to `await apiService.getLayer(id)`
FetchLayer(id) ==
  /\ CanStart
  /\ EnterLayersStore
  /\ Start("fetchLayer", id, "getLayer")
  /\ UNCHANGED <<projVars, layers, currentLayer, layerDataCache, srvVars, dsVars, metaVars, uiVars>>

\* fetchLayer(id), from the response on
FetchLayerSettle(t) ==
  /\ Settling(t, "fetchLayer", "getLayer")
  /\ LET response == tasks[t].call
         id == tasks[t].id
     IN
       IF response.st = "ok"
       THEN /\ currentLayer' = response.layers[1]
            /\ layers' = UpsertLayer(layers, response.layers[1], id)
            /\ layersError' = layersError
            /\ tasks' = Finish(t, "resolved")
            /\ lastOp' = Op("fetchLayer", id, "resolved")
       ELSE /\ UNCHANGED <<layers, currentLayer>>
            /\ layersError' = ErrorMessage(response.status)
            /\ tasks' = Finish(t, "rejected")
            /\ lastOp' = Op("fetchLayer", id, "rejected")
  /\ layersLoading' = FALSE
  /\ UNCHANGED <<projVars, layerDataCache, srvVars, opCount, overlapping, dsVars, metaVars, uiVars>>

\* the cached layer takes the new color at once
UpdateLayerColorOptimistic(id, color) ==
  /\ CanStart
  /\ EnterLayersStore
  /\ StartTask([Task("updateLayerColor", id, "updateLayerColor") EXCEPT !.color = color])
  /\ layers' = [i \in 1..Len(layers) |->
                  IF layers[i].data_layer_id = id
                  THEN [layers[i] EXCEPT !.color = color]
                  ELSE layers[i]]
  /\ UNCHANGED <<projVars, currentLayer, layerDataCache, srvVars, dsVars, metaVars, uiVars>>

\* updateLayerColor(id, color), up to `await apiService.updateLayerColor(id, data)`
UpdateLayerColor(id, color) ==
  /\ CanStart
  /\ EnterLayersStore
  /\ StartTask([Task("updateLayerColor", id, "updateLayerColor") EXCEPT !.color = color])
  /\ UNCHANGED <<projVars, layers, currentLayer, layerDataCache, srvVars, dsVars, metaVars, uiVars>>

\* updateLayerVisibility(id, isVisible), up to
\* `await apiService.updateLayerVisibility(id, data)`
UpdateLayerVisibility(id, isVisible) ==
  /\ CanStart
  /\ EnterLayersStore
  /\ StartTask([Task("updateLayerVisibility", id, "updateLayerVisibility")
                  EXCEPT !.isVisible = isVisible])
  /\ UNCHANGED <<projVars, layers, currentLayer, layerDataCache, srvVars, dsVars, metaVars, uiVars>>

\* updateLayerColor and updateLayerVisibility, from the response on
UpdateLayerSettle(t, op) ==
  /\ Settling(t, op, op)
  /\ LET response == tasks[t].call
         id == tasks[t].id
     IN
       IF response.st = "ok"
       THEN /\ layers' = ReplaceLayer(layers, response.layers[1], id)
            /\ currentLayer' = ReplaceCurrentLayer(currentLayer, response.layers[1], id)
            /\ layersError' = layersError
            /\ tasks' = Finish(t, "resolved")
            /\ lastOp' = Op(op, id, "resolved")
       ELSE /\ UNCHANGED <<layers, currentLayer>>
            /\ layersError' = ErrorMessage(response.status)
            /\ tasks' = Finish(t, "rejected")
            /\ lastOp' = Op(op, id, "rejected")
  /\ layersLoading' = FALSE
  /\ UNCHANGED <<projVars, layerDataCache, srvVars, opCount, overlapping, dsVars, metaVars, uiVars>>

UpdateOps == {"updateLayerColor", "updateLayerVisibility"}

\* ---------------------------------------------------------- datasources store
\* the first lines of every async function of the datasources store
EnterDataSourcesStore ==
  /\ dsLoading' = TRUE
  /\ dsError' = NullStr

\* setCurrentDataSource(dataSource), called with a record of the list or null
SetCurrentDataSource(dataSource) ==
  /\ CanStart
  /\ \E i \in 1..Len(dataSources) : dataSources[i] = dataSource
  /\ currentDataSource' = dataSource
  /\ tasks' = Forget(tasks)
  /\ lastOp' = Op("setCurrentDataSource", dataSource.data_source_id, "return")
  /\ opCount' = opCount + 1
  /\ UNCHANGED <<projVars, layerVars, srvVars, overlapping, dataSources, dsLoading,
                 dsError, metaVars, uiVars>>

\* fetchDataSources(), up to `await apiService.listDataSources()`
FetchDataSources ==
  /\ CanStart
  /\ EnterDataSourcesStore
  /\ Start("fetchDataSources", Null, "listDataSources")
  /\ UNCHANGED <<projVars, layerVars, srvVars, dataSources, currentDataSource, metaVars, uiVars>>

\* fetchDataSources(), from the response on
FetchDataSourcesSettle(t) ==
  /\ Settling(t, "fetchDataSources", "listDataSources")
  /\ LET response == tasks[t].call IN
       IF response.st = "ok"
       THEN /\ dataSources' = response.data_sources
            /\ dsError' = dsError
            /\ tasks' = Finish(t, "resolved")
            /\ lastOp' = Op("fetchDataSources", Null, "resolved")
       ELSE /\ UNCHANGED dataSources
            /\ dsError' = ErrorMessage(response.status)
            /\ tasks' = Finish(t, "rejected")
            /\ lastOp' = Op("fetchDataSources", Null, "rejected")
  /\ dsLoading' = FALSE
  /\ UNCHANGED <<projVars, layerVars, srvVars, opCount, overlapping, currentDataSource,
                 metaVars, uiVars>>

\* getDataSourceById: Array.prototype.find on data_source_id; NullDataSource
\* stands for undefined
GetDataSourceById(ds, id) ==
  IF \E i \in 1..Len(ds) : ds[i].data_source_id = id
  THEN ds[CHOOSE i \in 1..Len(ds) :
            /\ ds[i].data_source_id = id
            /\ \A j \in 1..(i - 1) : ds[j].data_source_id # id]
  ELSE NullDataSource

\* the record of the new datasource carries the id only
NewDataSourceWithoutStats(response) == DataSourceMetadata(response.data_source_id)

\* `const newDataSource: DataSourceMetadata = {...}` built from the upload
\* response
NewDataSource(response) ==
  [data_source_id |-> response.data_source_id, type |-> "csv",
   row_count |-> response.row_count, start_time |-> response.start_time,
   end_time |-> response.end_time]

\* uploadDataSource(params), up to `await apiService.uploadDataSource(params)`
UploadDataSource(file) ==
  /\ CanStart
  /\ EnterDataSourcesStore
  /\ StartTask([Task("uploadDataSource", Null, "uploadDataSource") EXCEPT !.file = file])
  /\ UNCHANGED <<projVars, layerVars, srvVars, dataSources, currentDataSource, metaVars, uiVars>>

\* uploadDataSource(params), from the response on
UploadDataSourceSettle(t) ==
  /\ Settling(t, "uploadDataSource", "uploadDataSource")
  /\ LET response == tasks[t].call IN
       IF response.st = "ok"
       THEN /\ dataSources' = Append(dataSources, NewDataSource(response.upload))
            /\ currentDataSource' = NewDataSource(response.upload)
            /\ dsError' = dsError
            /\ tasks' = Finish(t, "resolved")
            /\ lastOp' = Op("uploadDataSource", Null, "resolved")
       ELSE /\ UNCHANGED <<dataSources, currentDataSource>>
            /\ dsError' = ErrorMessage(response.status)
            /\ tasks' = Finish(t, "rejected")
            /\ lastOp' = Op("uploadDataSource", Null, "rejected")
  /\ dsLoading' = FALSE
  /\ UNCHANGED <<projVars, layerVars, srvVars, opCount, overlapping, metaVars, uiVars>>

\* the record leaves the list before the service has confirmed
DeleteDataSourceOptimistic(id) ==
  /\ CanStart
  /\ EnterDataSourcesStore
  /\ Start("deleteDataSource", id, "deleteDataSource")
  /\ dataSources' = RemoveDataSource(dataSources, id)
  /\ UNCHANGED <<projVars, layerVars, srvVars, currentDataSource, metaVars, uiVars>>

\* deleteDataSource(id), up to `await apiService.deleteDataSource(id)`
DeleteDataSource(id) ==
  /\ CanStart
  /\ EnterDataSourcesStore
  /\ Start("deleteDataSource", id, "deleteDataSource")
  /\ UNCHANGED <<projVars, layerVars, srvVars, dataSources, currentDataSource, metaVars, uiVars>>

\* deleteDataSource(id), from the response on
DeleteDataSourceSettle(t) ==
  /\ Settling(t, "deleteDataSource", "deleteDataSource")
  /\ LET response == tasks[t].call
         id == tasks[t].id
     IN
       IF response.st = "ok"
       THEN /\ dataSources' = RemoveDataSource(dataSources, id)
            /\ currentDataSource' = IF currentDataSource.data_source_id = id
                                    THEN NullDataSource ELSE currentDataSource
            /\ dsError' = dsError
            /\ tasks' = Finish(t, "resolved")
            /\ lastOp' = Op("deleteDataSource", id, "resolved")
       ELSE /\ UNCHANGED <<dataSources, currentDataSource>>
            /\ dsError' = ErrorMessage(response.status)
            /\ tasks' = Finish(t, "rejected")
            /\ lastOp' = Op("deleteDataSource", id, "rejected")
  /\ dsLoading' = FALSE
  /\ UNCHANGED <<projVars, layerVars, srvVars, opCount, overlapping, metaVars, uiVars>>

\* ------------------------------------------------ layers store, time series
\* GET /api/layers/{id}/data, for fetchLayerData called on its own
SrvGetLayerDataById(t) ==
  /\ Awaiting(t, "fetchLayerData", "getLayerData")
  /\ tasks[t].call.st = "sent"
  /\ LET id == tasks[t].id IN
       Answer(t, IF srvData[id] # NoData THEN Ok(<<>>, <<>>, srvData[id]) ELSE Err(404))
  /\ UNCHANGED srvVars

\* getCachedLayerData(id): layerDataCache.value.get(id)
GetCachedLayerData(id) ==
  /\ CanStart
  /\ tasks' = Forget(tasks)
  /\ lastOp' = Op("getCachedLayerData", id, "return")
  /\ opCount' = opCount + 1
  /\ UNCHANGED <<projVars, layerVars, srvVars, overlapping, dsVars, metaVars, uiVars>>

\* the cached series is returned when there is one, and no call is made
FetchLayerDataCacheFirst(id) ==
  /\ CanStart
  /\ IF layerDataCache[id] # NoData
     THEN /\ tasks' = Forget(tasks)
          /\ lastOp' = Op("fetchLayerData", id, "call")
          /\ opCount' = opCount + 1
          /\ UNCHANGED <<overlapping, layersLoading, layersError>>
     ELSE /\ EnterLayersStore
          /\ Start("fetchLayerData", id, "getLayerData")
  /\ UNCHANGED <<projVars, layers, currentLayer, layerDataCache, srvVars, dsVars, metaVars, uiVars>>

\* fetchLayerData(id), up to `await apiService.getLayerData(id, params)`
FetchLayerData(id) ==
  /\ CanStart
  /\ EnterLayersStore
  /\ Start("fetchLayerData", id, "getLayerData")
  /\ UNCHANGED <<projVars, layers, currentLayer, layerDataCache, srvVars, dsVars, metaVars, uiVars>>

\* fetchLayerData(id), from the response on
FetchLayerDataSettle(t) ==
  /\ Settling(t, "fetchLayerData", "getLayerData")
  /\ LET response == tasks[t].call
         id == tasks[t].id
     IN
       IF response.st = "ok"
       THEN /\ layerDataCache' = [layerDataCache EXCEPT ![id] = response.rows]
            /\ layersError' = layersError
            /\ tasks' = Finish(t, "resolved")
            /\ lastOp' = Op("fetchLayerData", id, "resolved")
       ELSE /\ UNCHANGED layerDataCache
            /\ layersError' = ErrorMessage(response.status)
            /\ tasks' = Finish(t, "rejected")
            /\ lastOp' = Op("fetchLayerData", id, "rejected")
  /\ layersLoading' = FALSE
  /\ UNCHANGED <<projVars, layers, currentLayer, srvVars, opCount, overlapping, dsVars, metaVars, uiVars>>

\* ------------------------------------------- layers store, csv and metadata
\* POST /api/layers/{id}/load-csv: the layer gets a time series of its own
SrvLoadLayerCSV(t) ==
  /\ Awaiting(t, "loadLayerCSV", "loadLayerCSV")
  /\ tasks[t].call.st = "sent"
  /\ LET id == tasks[t].id IN
       IF srvLayers[id] # Null
       THEN \E rows \in RowCounts :
              /\ srvData' = [srvData EXCEPT ![id] = rows]
              /\ Answer(t, Ok(<<>>, <<ServerLayer(id)>>, NoData))
       ELSE /\ UNCHANGED srvData
            /\ Answer(t, Err(404))
  /\ UNCHANGED <<srvProjects, srvLayers, srvUsedProjects, srvUsedLayers, srvStyleVars, srvDsVars>>

\* loadLayerCSV(id, params), up to `await apiService.loadLayerCSV(id, params)`
LoadLayerCSV(id) ==
  /\ CanStart
  /\ EnterLayersStore
  /\ Start("loadLayerCSV", id, "loadLayerCSV")
  /\ UNCHANGED <<projVars, layers, currentLayer, layerDataCache, srvVars, dsVars, metaVars, uiVars>>

\* loadLayerCSV(id, params), from the response on
LoadLayerCSVSettle(t) ==
  /\ Settling(t, "loadLayerCSV", "loadLayerCSV")
  /\ LET response == tasks[t].call
         id == tasks[t].id
     IN
       IF response.st = "ok"
       THEN /\ layers' = ReplaceLayer(layers, response.layers[1], id)
            /\ currentLayer' = ReplaceCurrentLayer(currentLayer, response.layers[1], id)
            /\ layersError' = layersError
            /\ tasks' = Finish(t, "resolved")
            /\ lastOp' = Op("loadLayerCSV", id, "resolved")
       ELSE /\ UNCHANGED <<layers, currentLayer>>
            /\ layersError' = ErrorMessage(response.status)
            /\ tasks' = Finish(t, "rejected")
            /\ lastOp' = Op("loadLayerCSV", id, "rejected")
  /\ layersLoading' = FALSE
  /\ UNCHANGED <<projVars, layerDataCache, srvVars, opCount, overlapping, dsVars, metaVars, uiVars>>

\* the metadata of the datasource layer l points at: 404 when the layer or
\* its datasource does not exist
SrvGetLayerDataMetadata(t) ==
  /\ Awaiting(t, "fetchMetadata", "getLayerDataMetadata")
  /\ tasks[t].call.st = "sent"
  /\ LET l == tasks[t].id IN
       Answer(t, IF srvLayers[l] # Null /\ srvData[l] # NoData
                 THEN Ok(<<>>, <<>>, srvData[l])
                 ELSE Err(404))
  /\ UNCHANGED srvVars

\* ------------------------------------------------------------- LayerManager
\* the check leaves out the layers whose metadata is being fetched
MetadataKnownUnlessLoading(layerId) ==
  \/ layerMetadata[layerId] # NoData
  \/ layerId \in failedMetadata

\* `loadingMetadata.has(layerId) || layerMetadata.has(layerId) ||
\* failedMetadata.has(layerId)`: already loading, loaded, or failed
MetadataKnown(layerId) ==
  \/ layerId \in loadingMetadata
  \/ layerMetadata[layerId] # NoData
  \/ layerId \in failedMetadata

\* fetchMetadata(layerId), up to the await of fetchLayerDataMetadata(layerId),
\* which itself runs up to `await apiService.getLayerDataMetadata(id)`
FetchMetadata(layerId) ==
  /\ CanStart
  /\ IF MetadataKnown(layerId)
     THEN /\ tasks' = Forget(tasks)
          /\ lastOp' = Op("fetchMetadata", layerId, "return")
          /\ opCount' = opCount + 1
          /\ UNCHANGED <<overlapping, loadingMetadata, layersLoading, layersError>>
     ELSE /\ loadingMetadata' = loadingMetadata \cup {layerId}
          /\ EnterLayersStore
          /\ Start("fetchMetadata", layerId, "getLayerDataMetadata")
  /\ UNCHANGED <<projVars, layers, currentLayer, layerDataCache, srvVars, dsVars,
                 layerMetadata, failedMetadata, uiVars>>

\* fetchLayerDataMetadata from the response on, then the rest of fetchMetadata:
\* the catch block of fetchMetadata swallows the error
FetchMetadataSettle(t) ==
  /\ Settling(t, "fetchMetadata", "getLayerDataMetadata")
  /\ LET response == tasks[t].call
         layerId == tasks[t].id
     IN
       /\ IF response.st = "ok"
          THEN /\ layerMetadata' = [layerMetadata EXCEPT ![layerId] = response.rows]
               /\ failedMetadata' = failedMetadata \ {layerId}
               /\ layersError' = layersError
          ELSE /\ layersError' = ErrorMessage(response.status)
               /\ failedMetadata' = failedMetadata \cup {layerId}
               /\ UNCHANGED layerMetadata
       /\ loadingMetadata' = loadingMetadata \ {layerId}
       /\ lastOp' = Op("fetchMetadata", layerId, "resolved")
  /\ layersLoading' = FALSE
  /\ tasks' = Finish(t, "resolved")
  /\ UNCHANGED <<projVars, layers, currentLayer, layerDataCache, srvVars, opCount,
                 overlapping, dsVars, uiVars>>

\* ---------------------------------------------------------- ModalNewProject
\* the DialogTrigger opens the dialog
OpenModal ==
  /\ ~modalOpen
  /\ modalOpen' = TRUE
  /\ UNCHANGED <<isCreating, createError, selectedFile, panelVars, projVars, layerVars,
                 dsVars, metaVars, srvVars, tasks, lastOp, opCount, overlapping>>

\* handleFileSelect(event) with a csv file whose preview can be loaded;
\* the preview itself is not part of the state
HandleFileSelect ==
  /\ modalOpen
  /\ ~selectedFile
  /\ selectedFile' = TRUE
  /\ UNCHANGED <<isCreating, createError, modalOpen, panelVars, projVars, layerVars,
                 dsVars, metaVars, srvVars, tasks, lastOp, opCount, overlapping>>

\* handleCancel(); the Cancel button is disabled while isCreating
HandleCancel ==
  /\ modalOpen
  /\ ~isCreating
  /\ selectedFile' = FALSE
  /\ modalOpen' = FALSE
  /\ UNCHANGED <<isCreating, createError, panelVars, projVars, layerVars,
                 dsVars, metaVars, srvVars, tasks, lastOp, opCount, overlapping>>

\* handleCreate(), up to `await apiService.createProject(...)`; the Create
\* button is disabled while isCreating
HandleCreate ==
  /\ CanStart
  /\ modalOpen
  /\ ~isCreating
  /\ IF ~selectedFile
     THEN \* `alert('Please select a CSV file'); return`
          /\ tasks' = Forget(tasks)
          /\ lastOp' = Op("handleCreate", Null, "return")
          /\ opCount' = opCount + 1
          /\ UNCHANGED <<overlapping, isCreating, createError>>
     ELSE /\ isCreating' = TRUE
          /\ createError' = NullStr
          /\ Start("handleCreate", Null, "createProject")
  /\ UNCHANGED <<modalOpen, selectedFile, panelVars, projVars, layerVars, dsVars,
                 metaVars, srvVars>>

\* the catch block leaves createError alone
HandleCreateCatchSilently(t) ==
  /\ createError' = createError
  /\ isCreating' = FALSE
  /\ tasks' = Finish(t, "resolved")
  /\ lastOp' = Op("handleCreate", tasks[t].project, "resolved")
  /\ UNCHANGED <<modalOpen, selectedFile>>

\* the catch and finally blocks of handleCreate
HandleCreateCatch(t) ==
  /\ createError' = "Failed to create project. Please try again."
  /\ isCreating' = FALSE
  /\ tasks' = Finish(t, "resolved")
  /\ lastOp' = Op("handleCreate", tasks[t].project, "resolved")
  /\ UNCHANGED <<modalOpen, selectedFile>>

\* handleCreate(), from the response of createProject, createLayer or
\* loadLayerCSV up to the next await; the last of them is the await of
\* projectsStore.loadProject(project.project_id), which itself runs up to
\* `await apiService.getProject(id)`
HandleCreateStep(t) ==
  /\ Running(t)
  /\ tasks[t].op = "handleCreate"
  /\ tasks[t].pc \in {"createProject", "createLayer", "loadLayerCSV"}
  /\ tasks[t].call.st \in {"ok", "err"}
  /\ LET response == tasks[t].call IN
       IF response.st = "err"
       THEN /\ HandleCreateCatch(t)
            /\ UNCHANGED <<loading, error>>
       ELSE IF tasks[t].pc = "createProject"
       THEN /\ tasks' = [tasks EXCEPT ![t].project = response.projects[1].project_id,
                                      ![t].id = response.projects[1].project_id,
                                      ![t].pc = "createLayer",
                                      ![t].call = Sent]
            /\ lastOp' = Op("handleCreate", response.projects[1].project_id, "call")
            /\ UNCHANGED <<modalVars, loading, error>>
       ELSE IF tasks[t].pc = "createLayer"
       THEN /\ tasks' = [tasks EXCEPT ![t].id = response.layers[1].data_layer_id,
                                      ![t].pc = "loadLayerCSV",
                                      ![t].call = Sent]
            /\ lastOp' = Op("handleCreate", tasks[t].project, "call")
            /\ UNCHANGED <<modalVars, loading, error>>
       ELSE /\ EnterProjectsStore
            /\ \E u \in Tasks :
                 /\ ~Running(u)
                 /\ tasks' = [tasks EXCEPT ![t].pc = "loadProject",
                                           ![t].call = Delivered(response),
                                           ![u] = Task("loadProject", tasks[t].project,
                                                       "getProject")]
            /\ lastOp' = Op("loadProject", tasks[t].project, "call")
            /\ UNCHANGED modalVars
  /\ UNCHANGED <<projects, currentProject, selectedProjectId, selectedLayerId, layerVars,
                 dsVars, metaVars, panelVars, srvVars, opCount, overlapping>>

\* handleCreate(), from the settling of loadProject on
HandleCreateSettle(t) ==
  /\ Running(t)
  /\ tasks[t].op = "handleCreate"
  /\ tasks[t].pc = "loadProject"
  /\ \E u \in Tasks :
       /\ tasks[u].op = "loadProject"
       /\ tasks[u].id = tasks[t].project
       /\ ~Running(u)
       /\ IF tasks[u].state = "resolved"
          THEN /\ selectedFile' = FALSE
               /\ createError' = NullStr
               /\ modalOpen' = FALSE
               /\ isCreating' = FALSE
               /\ tasks' = Finish(t, "resolved")
               /\ lastOp' = Op("handleCreate", tasks[t].project, "resolved")
          ELSE HandleCreateCatch(t)
  /\ UNCHANGED <<projVars, layerVars, dsVars, metaVars, panelVars, srvVars, opCount,
                 overlapping>>

\* ---------------------------------------- ResizablePanel: Manage Projects
\* no continuation of the dialog waits for a store function that has settled
\* (it runs as soon as the store function settles, before the next event)
PanelSettled == ~isLoading /\ deletingProjectId = Null

\* the dialog is opened; watch(open) calls fetchProjects(), which runs up to
\* the await of projectsStore.fetchProjects(), itself up to
\* `await apiService.listProjects()`
OpenPanel ==
  /\ ~panelOpen
  /\ PanelSettled
  /\ CanStart
  /\ panelOpen' = TRUE
  /\ isLoading' = TRUE
  /\ panelError' = NullStr
  /\ EnterProjectsStore
  /\ Start("fetchProjects", Null, "listProjects")
  /\ UNCHANGED <<deletingProjectId, confirmingDeleteId, canConfirmDelete, timers, now,
                 confirmedAt, modalVars, projects, currentProject, selectedProjectId,
                 selectedLayerId, layerVars, dsVars, metaVars, srvVars>>

\* fetchProjects() of the dialog, from the settling of the store function on
PanelFetchSettle ==
  /\ isLoading
  /\ \E t \in Tasks :
       /\ tasks[t].op = "fetchProjects"
       /\ ~Running(t)
       /\ panelError' = IF tasks[t].state = "rejected"
                        THEN "Failed to load projects. Please try again."
                        ELSE panelError
  /\ isLoading' = FALSE
  /\ UNCHANGED <<panelOpen, deletingProjectId, confirmingDeleteId, canConfirmDelete,
                 timers, now, confirmedAt, modalVars, projVars, layerVars, dsVars,
                 metaVars, srvVars, tasks, lastOp, opCount, overlapping>>

\* the Close button (`open = false`), then the else branch of watch(open)
ClosePanel ==
  /\ panelOpen
  /\ panelOpen' = FALSE
  /\ confirmingDeleteId' = Null
  /\ canConfirmDelete' = FALSE
  /\ UNCHANGED <<isLoading, panelError, deletingProjectId, timers, now, confirmedAt,
                 modalVars, projVars, layerVars, dsVars, metaVars, srvVars, tasks,
                 lastOp, opCount, overlapping>>

\* executeDelete(projectId), up to the await of projectsStore.deleteProject,
\* itself up to `await apiService.deleteProject(id)`
ExecuteDelete(projectId) ==
  /\ CanStart
  /\ PanelSettled
  /\ deletingProjectId' = projectId
  /\ confirmingDeleteId' = Null
  /\ canConfirmDelete' = FALSE
  /\ panelError' = NullStr
  /\ EnterProjectsStore
  /\ Start("deleteProject", projectId, "deleteProject")
  /\ UNCHANGED <<timers, confirmedAt>>

\* the Remove button of the row of projectId is there and enabled
RemoveEnabled(projectId) ==
  /\ panelOpen
  /\ ~isLoading
  /\ panelError = NullStr
  /\ \E i \in 1..Len(projects) : projects[i].project_id = projectId
  /\ ~(\/ deletingProjectId = projectId
       \/ (confirmingDeleteId = projectId /\ ~canConfirmDelete))

\* handleRemoveProject(projectId), a click on the Remove button of the row
HandleRemoveProject(projectId) ==
  /\ RemoveEnabled(projectId)
  /\ IF confirmingDeleteId # projectId
     THEN /\ confirmingDeleteId' = projectId
          /\ canConfirmDelete' = FALSE
          \* setTimeout(..., 300)
          /\ timers' = timers \cup {[projectId |-> projectId, due |-> now + ConfirmDelay]}
          \* when the row was put into the confirming state
          /\ confirmedAt' = now
          /\ UNCHANGED <<panelError, deletingProjectId, loading, error, tasks, lastOp,
                         opCount, overlapping>>
     ELSE IF canConfirmDelete
     THEN ExecuteDelete(projectId)
     ELSE UNCHANGED <<panelError, deletingProjectId, confirmingDeleteId,
                      canConfirmDelete, timers, confirmedAt, loading, error, tasks,
                      lastOp, opCount, overlapping>>
  /\ UNCHANGED <<panelOpen, isLoading, now, modalVars, projects, currentProject,
                 selectedProjectId, selectedLayerId, layerVars, dsVars, metaVars,
                 srvVars>>

\* executeDelete(projectId), from the settling of the store function on
ExecuteDeleteSettle ==
  /\ deletingProjectId # Null
  /\ \E t \in Tasks :
       /\ tasks[t].op = "deleteProject"
       /\ tasks[t].id = deletingProjectId
       /\ ~Running(t)
       /\ panelError' = IF tasks[t].state = "rejected"
                        THEN "Failed to delete project. Please try again."
                        ELSE panelError
  /\ deletingProjectId' = Null
  /\ UNCHANGED <<panelOpen, isLoading, confirmingDeleteId, canConfirmDelete, timers,
                 now, confirmedAt, modalVars, projVars, layerVars, dsVars, metaVars,
                 srvVars, tasks, lastOp, opCount, overlapping>>

\* the callback of a timer that is due runs
TimerFires(timer) ==
  /\ timer \in timers
  /\ timer.due <= now
  /\ timers' = timers \ {timer}
  /\ canConfirmDelete' = IF confirmingDeleteId = timer.projectId THEN TRUE
                         ELSE canConfirmDelete
  /\ UNCHANGED <<panelOpen, isLoading, panelError, deletingProjectId,
                 confirmingDeleteId, now, confirmedAt, modalVars, projVars, layerVars,
                 dsVars, metaVars, srvVars, tasks, lastOp, opCount, overlapping>>

\* 100 ms pass; a timer runs as soon as it is due
Tick ==
  /\ now < MaxTime
  /\ \A timer \in timers : timer.due > now
  /\ now' = now + 1
  /\ UNCHANGED <<panelOpen, isLoading, panelError, deletingProjectId,
                 confirmingDeleteId, canConfirmDelete, timers, confirmedAt, modalVars,
                 projVars, layerVars, dsVars, metaVars, srvVars, tasks, lastOp, opCount,
                 overlapping>>

\* the timers handleRemoveProject can start
Timers == [projectId : ProjectIds, due : 0..(MaxTime + ConfirmDelay)]

\* ------------------------------------------------------------ specifications
\* the remote service and the network
Environment ==
  \/ \E t \in Tasks : SrvListProjects(t)
  \/ \E t \in Tasks : SrvCreateProject(t)
  \/ \E t \in Tasks : SrvGetProject(t)
  \/ \E t \in Tasks : SrvDeleteProject(t)
  \/ \E t \in Tasks : SrvGetProjectLayers(t)
  \/ \E t \in Tasks : SrvCreateLayer(t)
  \/ \E t \in Tasks : SrvDeleteLayer(t)
  \/ \E t \in Tasks : \E i \in 1..Cardinality(LayerIds) : SrvGetLayer(t, i)
  \/ \E t \in Tasks : \E i \in 1..Cardinality(LayerIds) : SrvGetLayerData(t, i)
  \/ \E t \in Tasks : NetworkFailure(t)

\* the continuations of the async store functions
Continue ==
  \/ \E t \in Tasks : FetchProjectsSettle(t)
  \/ \E t \in Tasks : CreateProjectSettle(t)
  \/ \E t \in Tasks : DeleteProjectSettle(t)
  \/ \E t \in Tasks : CreateLayerSettle(t)
  \/ \E t \in Tasks : DeleteLayerSettle(t)
  \/ \E t \in Tasks : LoadProjectStage1(t)
  \/ \E t \in Tasks : LoadProjectStage2(t)
  \/ \E t \in Tasks : \E i \in 1..Cardinality(LayerIds) : LoadProjectStage3(t, i)
  \/ \E t \in Tasks : \E i \in 1..Cardinality(LayerIds) : LoadProjectStage4(t, i)

\* a store function is called
Invoke ==
  \/ \E id \in ProjectIds \cup {Null} : SetSelectedProjectId(id)
  \/ \E id \in LayerIds \cup {Null} : SetSelectedLayerId(id)
  \/ FetchProjects
  \/ CreateProject
  \/ \E id \in ProjectIds : DeleteProject(id)
  \/ \E id \in ProjectIds : LoadProject(id)
  \/ \E id \in ProjectIds : CreateLayer(id)
  \/ \E id \in LayerIds : DeleteLayer(id)

Next ==
  \/ Invoke
  \/ Continue
  \/ Environment

\* store functions called at any time, also while others are in flight
Spec == Init /\ [][Next]_vars

\* every async store function is awaited before the next call is made
SpecSeq == InitSeq /\ [][Next]_vars

\* LayerManager fetching the metadata of layers that are created and loaded
\* with csv data meanwhile
NextMeta ==
  \/ \E l \in LayerIds : FetchMetadata(l)
  \/ \E t \in Tasks : FetchMetadataSettle(t)
  \/ \E l \in LayerIds : LoadLayerCSV(l)
  \/ \E t \in Tasks : LoadLayerCSVSettle(t)
  \/ \E id \in ProjectIds : CreateLayer(id)
  \/ \E t \in Tasks : CreateLayerSettle(t)
  \/ \E t \in Tasks : SrvGetLayerDataMetadata(t)
  \/ \E t \in Tasks : SrvLoadLayerCSV(t)
  \/ \E t \in Tasks : SrvCreateLayer(t)
  \/ \E t \in Tasks : NetworkFailure(t)

SpecMeta == InitMeta /\ [][NextMeta]_vars

\* LayerManager with a projectLayers watcher that fires at any time: the
\* fetchMetadata calls overlap
InitWatch == InitClient /\ (InitService \/ InitServiceOrphans) /\ overlapping = TRUE

NextWatch ==
  \/ \E l \in LayerIds : FetchMetadata(l)
  \/ \E t \in Tasks : FetchMetadataSettle(t)
  \/ \E t \in Tasks : SrvGetLayerDataMetadata(t)
  \/ \E t \in Tasks : NetworkFailure(t)

SpecWatch == InitWatch /\ [][NextWatch]_vars

\* the fetches, updates and deletes of the three stores, each awaited before
\* the next is called
NextCaches ==
  \/ FetchProjects
  \/ \E t \in Tasks : FetchProjectsSettle(t)
  \/ \E id \in ProjectIds : DeleteProject(id)
  \/ \E t \in Tasks : DeleteProjectSettle(t)
  \/ \E id \in ProjectIds : FetchProjectLayers(id)
  \/ \E t \in Tasks : FetchProjectLayersSettle(t)
  \/ \E id \in LayerIds : FetchLayer(id)
  \/ \E t \in Tasks : FetchLayerSettle(t)
  \/ \E id \in LayerIds : DeleteLayer(id)
  \/ \E t \in Tasks : DeleteLayerSettle(t)
  \/ \E id \in LayerIds, color \in Colors : UpdateLayerColor(id, color)
  \/ \E t \in Tasks, op \in UpdateOps : UpdateLayerSettle(t, op)
  \/ \E id \in LayerIds, isVisible \in BOOLEAN : UpdateLayerVisibility(id, isVisible)
  \/ FetchDataSources
  \/ \E t \in Tasks : FetchDataSourcesSettle(t)
  \/ \E id \in DataSourceIds : DeleteDataSource(id)
  \/ \E t \in Tasks : DeleteDataSourceSettle(t)
  \/ \E id \in DataSourceIds : SetCurrentDataSource(DataSourceMetadata(id))
  \/ \E t \in Tasks : SrvListProjects(t)
  \/ \E t \in Tasks : SrvDeleteProject(t)
  \/ \E t \in Tasks : SrvListProjectLayers(t)
  \/ \E t \in Tasks : SrvGetLayerById(t)
  \/ \E t \in Tasks : SrvDeleteLayer(t)
  \/ \E t \in Tasks : SrvUpdateLayerColor(t)
  \/ \E t \in Tasks : SrvUpdateLayerVisibility(t)
  \/ \E t \in Tasks : SrvListDataSources(t)
  \/ \E t \in Tasks : SrvDeleteDataSource(t)
  \/ \E t \in Tasks : NetworkFailure(t)

SpecCaches == InitSeq /\ [][NextCaches]_vars

\* the datasources store: list, upload, select and delete, each awaited
\* before the next is called
NextDataSources ==
  \/ FetchDataSources
  \/ \E t \in Tasks : FetchDataSourcesSettle(t)
  \/ \E file \in Files : UploadDataSource(file)
  \/ \E t \in Tasks : UploadDataSourceSettle(t)
  \/ \E id \in DataSourceIds : DeleteDataSource(id)
  \/ \E t \in Tasks : DeleteDataSourceSettle(t)
  \/ \E id \in DataSourceIds, file \in Files :
       SetCurrentDataSource(NewDataSource(UploadResponse(id, file)))
  \/ \E t \in Tasks : SrvListDataSources(t)
  \/ \E t \in Tasks : SrvUploadDataSource(t)
  \/ \E t \in Tasks : SrvDeleteDataSource(t)
  \/ \E t \in Tasks : NetworkFailure(t)

SpecDataSources == InitSeq /\ [][NextDataSources]_vars

\* loadProject, for projects that createLayer gives more layers: the calls,
\* the Gateway calls being settled by the service or the network, and the
\* continuations of the pipeline
LoadInvoke ==
  \/ \E id \in ProjectIds : LoadProject(id)
  \/ \E id \in ProjectIds : CreateLayer(id)

LoadEnvironment ==
  \/ \E t \in Tasks : SrvGetProject(t)
  \/ \E t \in Tasks : SrvGetProjectLayers(t)
  \/ \E t \in Tasks : \E i \in 1..Cardinality(LayerIds) : SrvGetLayer(t, i)
  \/ \E t \in Tasks : \E i \in 1..Cardinality(LayerIds) : SrvGetLayerData(t, i)
  \/ \E t \in Tasks : SrvCreateLayer(t)
  \/ \E t \in Tasks : NetworkFailure(t)

LoadContinue ==
  \/ \E t \in Tasks : LoadProjectStage1(t)
  \/ \E t \in Tasks : LoadProjectStage2(t)
  \/ \E t \in Tasks : \E i \in 1..Cardinality(LayerIds) : LoadProjectStage3(t, i)
  \/ \E t \in Tasks : \E i \in 1..Cardinality(LayerIds) : LoadProjectStage4(t, i)
  \/ \E t \in Tasks : CreateLayerSettle(t)

NextLoad ==
  \/ LoadInvoke
  \/ LoadEnvironment
  \/ LoadContinue

\* Every Gateway call settles in the end (the service answers, or the request
\* fails or times out), and the event loop runs the continuation of every
\* settled call.
SpecLoadLive ==
  /\ InitSeq
  /\ [][NextLoad]_vars
  /\ WF_vars(LoadEnvironment)
  /\ WF_vars(LoadContinue)

\* the time series of the layers: fetched, read from the cache, and replaced
\* at the service by loadLayerCSV
NextSeries ==
  \/ \E id \in LayerIds : FetchLayerData(id)
  \/ \E t \in Tasks : FetchLayerDataSettle(t)
  \/ \E id \in LayerIds : GetCachedLayerData(id)
  \/ \E id \in LayerIds : LoadLayerCSV(id)
  \/ \E t \in Tasks : LoadLayerCSVSettle(t)
  \/ \E id \in LayerIds : FetchLayer(id)
  \/ \E t \in Tasks : FetchLayerSettle(t)
  \/ \E t \in Tasks : SrvGetLayerDataById(t)
  \/ \E t \in Tasks : SrvLoadLayerCSV(t)
  \/ \E t \in Tasks : SrvGetLayerById(t)
  \/ \E t \in Tasks : NetworkFailure(t)

SpecSeries == InitSeq /\ [][NextSeries]_vars

\* the datasources store with calls that time out
NextTimeouts ==
  \/ NextDataSources
  \/ \E t \in Tasks : Timeout(t)

SpecTimeouts == InitSeq /\ [][NextTimeouts]_vars

\* the New Project dialog: the dialog, its workflow, the calls of the
\* workflow and those of loadProject
NextNewProject ==
  \/ OpenModal
  \/ HandleFileSelect
  \/ HandleCancel
  \/ HandleCreate
  \/ \E t \in Tasks : HandleCreateStep(t)
  \/ \E t \in Tasks : HandleCreateSettle(t)
  \/ \E t \in Tasks : SrvCreateProject(t)
  \/ \E t \in Tasks : SrvCreateLayer(t)
  \/ \E t \in Tasks : SrvLoadLayerCSV(t)
  \/ \E t \in Tasks : SrvGetProject(t)
  \/ \E t \in Tasks : SrvGetProjectLayers(t)
  \/ \E t \in Tasks : \E i \in 1..Cardinality(LayerIds) : SrvGetLayer(t, i)
  \/ \E t \in Tasks : \E i \in 1..Cardinality(LayerIds) : SrvGetLayerData(t, i)
  \/ \E t \in Tasks : NetworkFailure(t)
  \/ \E t \in Tasks : LoadProjectStage1(t)
  \/ \E t \in Tasks : LoadProjectStage2(t)
  \/ \E t \in Tasks : \E i \in 1..Cardinality(LayerIds) : LoadProjectStage3(t, i)
  \/ \E t \in Tasks : \E i \in 1..Cardinality(LayerIds) : LoadProjectStage4(t, i)

SpecNewProject == InitSeq /\ [][NextNewProject]_vars

\* the Manage Projects dialog: the dialog, the clock, and the two calls of
\* the projects store it makes
NextPanel ==
  \/ OpenPanel
  \/ PanelFetchSettle
  \/ ClosePanel
  \/ \E projectId \in ProjectIds : HandleRemoveProject(projectId)
  \/ ExecuteDeleteSettle
  \/ \E timer \in Timers : TimerFires(timer)
  \/ Tick
  \/ \E t \in Tasks : SrvListProjects(t)
  \/ \E t \in Tasks : SrvDeleteProject(t)
  \/ \E t \in Tasks : NetworkFailure(t)
  \/ \E t \in Tasks : FetchProjectsSettle(t)
  \/ \E t \in Tasks : DeleteProjectSettle(t)

SpecPanel == InitSeq /\ [][NextPanel]_vars

\* ------------------------------------------------------------------- claims
\* the ids of the records of a list
ProjectIdsOf(ps) == {ps[i].project_id : i \in 1..Len(ps)}
LayerIdsOf(ls) == {ls[i].data_layer_id : i \in 1..Len(ls)}

\* C1: whenever no operation is in flight, selectedLayerId is null or the id
\* of a layer of the Layer Cache whose project_id is selectedProjectId.
C1_SelectedLayerBelongsToSelectedProject ==
  Quiescent =>
    \/ selectedLayerId = Null
    \/ \E i \in 1..Len(layers) :
         /\ layers[i].data_layer_id = selectedLayerId
         /\ layers[i].project_id = selectedProjectId

\* C2: every step that changes selectedProjectId leaves selectedLayerId null.
C2_ProjectChangeClearsLayerSelection ==
  [][selectedProjectId' # selectedProjectId => selectedLayerId' = Null]_vars

\* the step is the call setSelectedProjectId(x)
CallsSetSelectedProjectId(x) ==
  /\ opCount' = opCount + 1
  /\ lastOp' = Op("setSelectedProjectId", x, "return")

C4_DeleteSelectsFirstRemaining ==
  [][\A t \in Tasks :
       (DeleteProjectSettle(t) /\ tasks[t].call.st = "ok" /\ selectedProjectId = tasks[t].id)
         => /\ selectedProjectId' = (IF Len(projects') > 0 THEN projects'[1].project_id ELSE Null)
            /\ selectedLayerId' = Null]_vars

\* C5: the projects list and the layers list hold at most one record per id.
C5_NoDuplicateIds ==
  /\ Cardinality(ProjectIdsOf(projects)) = Len(projects)
  /\ Cardinality(LayerIdsOf(layers)) = Len(layers)

\* a loadProject invocation, running or settled
IsLoadProject(T) == T.op = "loadProject"

\* loadProject(id) was the last thing to happen at the client and ended so
JustEnded(T, state) ==
  /\ IsLoadProject(T)
  /\ T.state = state
  /\ lastOp = Op("loadProject", T.id, state)

\* the positions of the getLayer calls of the load that succeeded
Fetched(T) == {i \in 1..Len(T.layerDetails) : T.layerDetails[i].st = "resolved"}

\* C6: a loadProject whose getLayer calls were made never rejects, whichever
\* of them fail; when it has resolved, the Layer Cache holds exactly the
\* records of the getLayer calls that succeeded, once each, and nothing else.
C6_PartialLoadResilience ==
  \A t \in Tasks :
    LET T == tasks[t] IN
      (IsLoadProject(T) /\ T.pc \in {"getLayer", "getLayerData"}) =>
        /\ T.state # "rejected"
        /\ JustEnded(T, "resolved") =>
             /\ Len(layers) = Cardinality(Fetched(T))
             /\ \A i \in Fetched(T) :
                  \E k \in 1..Len(layers) : layers[k] = T.layerDetails[i].layers[1]
             /\ \A k \in 1..Len(layers) :
                  \E i \in Fetched(T) : layers[k] = T.layerDetails[i].layers[1]

\* a load has resolved although one of its getLayer calls failed and another
\* succeeded: the Layer Cache holds fewer layers than the project has
C6_Witness ==
  \E t \in Tasks :
    /\ JustEnded(tasks[t], "resolved")
    /\ Fetched(tasks[t]) # {}
    /\ Fetched(tasks[t]) # 1..Len(tasks[t].layerDetails)
    /\ Len(layers) = Cardinality(Fetched(tasks[t]))

\* C7: loadProject has rejected exactly when its getProject call or its
\* getProjectLayers call failed, and then loading is false and error is set;
\* when it has resolved, whatever getLayer and layer-data calls failed, error
\* is null and loading is false.
C7_RejectsOnlyOnStage1Or2 ==
  \A t \in Tasks :
    LET T == tasks[t] IN
      IsLoadProject(T) =>
        /\ T.state = "rejected" <=> (T.call.st = "rejected" \/ T.layersCall.st = "rejected")
        /\ JustEnded(T, "rejected") => (loading = FALSE /\ error # NullStr)
        /\ JustEnded(T, "resolved") => (loading = FALSE /\ error = NullStr)

\* a load has resolved with a failed getLayer call and a failed layer-data call
C7_Witness ==
  \E t \in Tasks :
    /\ JustEnded(tasks[t], "resolved")
    /\ \E i \in 1..Len(tasks[t].layerDetails) : tasks[t].layerDetails[i].st = "rejected"
    /\ \E i \in 1..Len(tasks[t].dataCalls) : tasks[t].dataCalls[i].st = "rejected"
    /\ error = NullStr

\* C8: every step of a loadProject that is at its getProject call or is
\* rejected from it (the call itself, the service or the network producing
\* the outcome, the rejection) leaves the projects list, currentProject,
\* selectedProjectId, selectedLayerId, the Layer Cache and the time-series
\* cache as they were; no other step happens between the call and its end.
C8_Stage1FailureKeepsCaches ==
  [][\A t \in Tasks :
       (tasks'[t] # tasks[t] /\ IsLoadProject(tasks'[t]) /\ tasks'[t].pc = "getProject")
         => UNCHANGED <<projects, currentProject, selectedProjectId, selectedLayerId,
                        layers, layerDataCache>>]_vars

\* loadProject(id) has been rejected at getProject while another project is
\* selected and the caches are filled
C8_Witness ==
  \E t \in Tasks :
    /\ JustEnded(tasks[t], "rejected")
    /\ tasks[t].pc = "getProject"
    /\ selectedProjectId \notin {Null, tasks[t].id}
    /\ currentProject.project_id = selectedProjectId
    /\ Len(projects) > 0
    /\ Len(layers) > 0
    /\ \E l \in LayerIds : layerDataCache[l] # NoData

\* C9: a loadProject whose layer list came back empty has made no getLayer and
\* no layer-data call and has resolved; when it has, the Layer Cache is empty,
\* error is null and loading is false.
C9_EmptyProject ==
  \A t \in Tasks :
    LET T == tasks[t] IN
      (IsLoadProject(T) /\ T.layersCall.st = "resolved" /\ Len(T.layersCall.layers) = 0) =>
        /\ T.layerDetails = <<>>
        /\ T.dataCalls = <<>>
        /\ T.state = "resolved"
        /\ JustEnded(T, "resolved") =>
             (layers = <<>> /\ error = NullStr /\ loading = FALSE)

\* an empty project has been loaded after a project with a layer (whose time
\* series is still in the time-series cache)
C9_Witness ==
  \E t \in Tasks :
    /\ JustEnded(tasks[t], "resolved")
    /\ tasks[t].layersCall.st = "resolved"
    /\ Len(tasks[t].layersCall.layers) = 0
    /\ layers = <<>>
    /\ \E l \in LayerIds : layerDataCache[l] # NoData

\* the calls of the sequence that have not settled
Pending(calls) == {i \in 1..Len(calls) : ~IsDelivered(calls[i])}

\* C10: in a loadProject the getProjectLayers call has been made only if the
\* getProject call has settled, and layer-data calls have been made only if
\* every getLayer call has settled; a step of the load that leaves one of its
\* getLayer calls unsettled neither changes the Layer Cache nor makes a
\* layer-data call.
C10_StageBarrier ==
  /\ [](\A t \in Tasks :
          IsLoadProject(tasks[t]) =>
            /\ tasks[t].layersCall.st # "none" => IsDelivered(tasks[t].call)
            /\ tasks[t].layerDetails # <<>> => IsDelivered(tasks[t].layersCall)
            /\ tasks[t].dataCalls # <<>> => Pending(tasks[t].layerDetails) = {})
  /\ [][\A t \in Tasks :
          (IsLoadProject(tasks'[t]) /\ Pending(tasks'[t].layerDetails) # {})
            => /\ layers' = layers
               /\ tasks'[t].dataCalls = <<>>]_vars

\* the layer-data calls of a load with two layers are in flight: both getLayer
\* calls have settled and the Layer Cache has been replaced
C10_Witness ==
  \E t \in Tasks :
    /\ Awaiting(t, "loadProject", "getLayerData")
    /\ Len(tasks[t].layerDetails) > 1
    /\ Pending(tasks[t].layerDetails) = {}
    /\ Len(layers) = Len(tasks[t].dataCalls)
    /\ Pending(tasks[t].dataCalls) # {}

\* C11: a step of a loadProject after which the load is still running (one of
\* its calls is still to settle) sets neither selectedProjectId nor
\* currentProject: the project is marked selected by the last step only.
C11_SelectedAfterLastStage ==
  [][\A t \in Tasks :
       (/\ IsLoadProject(tasks'[t])
        /\ tasks'[t].state = "running"
        /\ tasks'[t] # tasks[t])
         => UNCHANGED <<selectedProjectId, currentProject>>]_vars

\* C12: when loadProject has resolved, for every layer it made a layer-data
\* call for, the time-series cache holds the response if the call succeeded
\* and has no entry for the layer id if the call failed.
C12_SeriesCacheFollowsStage4 ==
  \A t \in Tasks :
    LET T == tasks[t] IN
      JustEnded(T, "resolved") =>
        \A i \in 1..Len(T.dataCalls) :
          LET id == T.validLayers[i].data_layer_id IN
            /\ T.dataCalls[i].st = "resolved" => layerDataCache[id] = T.dataCalls[i].rows
            /\ T.dataCalls[i].st = "rejected" => layerDataCache[id] = NoData

\* C15: whenever no loadProject is in flight, every layer of the Layer Cache
\* has the project_id of a project of the projects list.
C15_LayersReferenceCachedProjects ==
  (\A t \in Tasks : ~(Running(t) /\ IsLoadProject(tasks[t]))) =>
    \A i \in 1..Len(layers) : layers[i].project_id \in ProjectIdsOf(projects)

\* an async function of the projects store has started and not settled
ProjectsStoreBusy ==
  \E t \in Tasks :
    /\ Running(t)
    /\ tasks[t].op \in {"fetchProjects", "createProject", "deleteProject", "loadProject"}

\* an async function of the layers store has started and not settled (the
\* fetchLayerData calls of a loadProject among them)
LayersStoreBusy ==
  \E t \in Tasks :
    /\ Running(t)
    /\ \/ tasks[t].op \in {"createLayer", "deleteLayer"}
       \/ IsLoadProject(tasks[t]) /\ Pending(tasks[t].dataCalls) # {}

\* C16: the loading flag of a store is true exactly while one of the store's
\* async functions has started and not settled.
C16_LoadingWhileBusy ==
  /\ loading <=> ProjectsStoreBusy
  /\ layersLoading <=> LayersStoreBusy

\* a fetchMetadata invocation whose metadata request the service has answered
\* with the given status and that has just run to its end
MetadataFetchFailed(T, status) ==
  /\ T.op = "fetchMetadata"
  /\ T.state = "resolved"
  /\ T.call.st = "rejected"
  /\ T.call.status = status
  /\ lastOp = Op("fetchMetadata", T.id, "resolved")

\* C18: when the metadata request of fetchMetadata(id) is answered with 404,
\* the metadata cache has no entry for id, id is marked failed-not-found,
\* fetchMetadata itself does not raise, and the error field of the layers
\* store is still null.
C18_OrphanTolerance ==
  \A t \in Tasks :
    MetadataFetchFailed(tasks[t], 404) =>
      /\ layerMetadata[tasks[t].id] = NoData
      /\ tasks[t].id \in failedMetadata
      /\ layersError = NullStr

\* the step is a call of fetchMetadata(l)
FetchMetadataCalled(l) ==
  /\ opCount' = opCount + 1
  /\ lastOp'.op = "fetchMetadata"
  /\ lastOp'.id = l

\* C19: the failed-not-found mark of a layer id is removed only by a
\* successful metadata fetch for that id, and a call of fetchMetadata(id) made
\* while id is marked and the service can answer the request does issue the
\* request.
C19_MarkClearedBySuccessfulFetch ==
  [][\A l \in LayerIds :
       /\ (l \in failedMetadata /\ l \notin failedMetadata')
            => layerMetadata'[l] # NoData
       /\ (/\ FetchMetadataCalled(l)
           /\ l \in failedMetadata
           /\ srvLayers[l] # Null
           /\ srvData[l] # NoData)
            => l \in loadingMetadata']_vars

\* C20: a layer id enters the failed-not-found state only in a step that
\* processes a 404 answer to the metadata request for that id.
C20_Only404Marks ==
  [][\A l \in LayerIds :
       (l \notin failedMetadata /\ l \in failedMetadata')
         => \E t \in Tasks :
              /\ tasks[t].op = "fetchMetadata"
              /\ tasks[t].id = l
              /\ tasks[t].call.st = "err"
              /\ tasks[t].call.status = 404]_vars

DataSourceIdsOf(ds) == {ds[i].data_source_id : i \in 1..Len(ds)}

\* the step leaves an invocation of op in flight in slot t: it is the call of
\* op, or a step taken while its Gateway call is outstanding
InFlightAfter(t, op) ==
  /\ tasks'[t].op = op
  /\ tasks'[t].state = "running"

\* the step processes the outcome of the Gateway call of the invocation of op
\* in slot t, which ends so
Settles(t, op, state) ==
  /\ Running(t)
  /\ tasks[t].op = op
  /\ tasks'[t].state = state

\* C13: deleteProject, deleteLayer and deleteDataSource leave their cache list
\* as it is when called and while the Gateway call is in flight, remove the
\* record in the step that processes the success response, and leave the
\* list as it is in the step that processes a failure.
C13_DeletesNotOptimistic ==
  [][\A t \in Tasks :
       /\ InFlightAfter(t, "deleteProject") => projects' = projects
       /\ InFlightAfter(t, "deleteLayer") => layers' = layers
       /\ InFlightAfter(t, "deleteDataSource") => dataSources' = dataSources
       /\ Settles(t, "deleteProject", "resolved")
            => /\ projects' = SelectSeq(projects, LAMBDA p : p.project_id # tasks[t].id)
               /\ tasks[t].id \notin ProjectIdsOf(projects')
       /\ Settles(t, "deleteLayer", "resolved")
            => /\ layers' = SelectSeq(layers, LAMBDA l : l.data_layer_id # tasks[t].id)
               /\ tasks[t].id \notin LayerIdsOf(layers')
       /\ Settles(t, "deleteDataSource", "resolved")
            => /\ dataSources' = SelectSeq(dataSources, LAMBDA d : d.data_source_id # tasks[t].id)
               /\ tasks[t].id \notin DataSourceIdsOf(dataSources')
       /\ Settles(t, "deleteProject", "rejected") => projects' = projects
       /\ Settles(t, "deleteLayer", "rejected") => layers' = layers
       /\ Settles(t, "deleteDataSource", "rejected") => dataSources' = dataSources]_vars

\* deletes of records that are in their cache, confirmed by the service and
\* not yet processed by the store: one such delete has been seen for a
\* datasource, and the record is still listed
C13_Witness ==
  \E t \in Tasks :
    /\ Running(t)
    /\ tasks[t].op = "deleteDataSource"
    /\ tasks[t].call.st = "ok"
    /\ tasks[t].id \in DataSourceIdsOf(dataSources)
    /\ tasks[t].id \notin srvDataSources
    /\ currentDataSource.data_source_id = tasks[t].id

StoreErrorOf(op) ==
  IF op \in {"fetchProjects", "deleteProject", "fetchProjectLayers"} THEN error
  ELSE IF op \in {"fetchDataSources", "deleteDataSource"} THEN dsError
  ELSE layersError

\* the invocation T was the last thing to happen at the client and ended so
Ended(T, state) ==
  /\ T.op # "none"
  /\ T.state = state
  /\ lastOp = Op(T.op, T.id, state)

\* C17: a store function whose Gateway call fails rejects, and when it has
\* rejected the error field of its store holds the message of the failure; a
\* store function whose Gateway call succeeds resolves, and when it has
\* resolved the error field of its store is null.
C17_ErrorCapturedAndRethrown ==
  \A t \in Tasks :
    LET T == tasks[t] IN
      /\ T.call.st = "rejected" => T.state = "rejected"
      /\ T.call.st = "resolved" => T.state = "resolved"
      /\ Ended(T, "rejected")
           => /\ StoreErrorOf(T.op) # NullStr
              /\ StoreErrorOf(T.op) = ErrorMessage(T.call.status)
      /\ Ended(T, "resolved") => StoreErrorOf(T.op) = NullStr

\* fetchProjectLayers has rejected, after some function of the same store had
\* succeeded
C17_Witness ==
  \E t \in Tasks :
    /\ Ended(tasks[t], "rejected")
    /\ tasks[t].op = "fetchProjectLayers"
    /\ tasks[t].call.status = 404
    /\ error # NullStr
    /\ opCount > 1

\* C21: uploadDataSource leaves the list as it is until the upload response
\* is processed; the step that processes the success response r makes no
\* store call, makes the list one record longer, and after it
\* getDataSourceById(r.data_source_id) is a record with the row_count,
\* start_time and end_time of r.
C21_UploadRoundTrip ==
  [][\A t \in Tasks :
       /\ InFlightAfter(t, "uploadDataSource") => dataSources' = dataSources
       /\ Settles(t, "uploadDataSource", "resolved")
            => LET r == tasks[t].call.upload
                   found == GetDataSourceById(dataSources', r.data_source_id)
               IN /\ opCount' = opCount
                  /\ \A u \in Tasks : tasks'[u].state = "running" => tasks[u].state = "running"
                  /\ Len(dataSources') = Len(dataSources) + 1
                  /\ found.data_source_id = r.data_source_id
                  /\ found.row_count = r.row_count
                  /\ found.start_time = r.start_time
                  /\ found.end_time = r.end_time]_vars

\* an upload of a file other than the default one has succeeded when the list
\* had been fetched: the list holds the old record and the new one
C21_Witness ==
  \E t \in Tasks :
    /\ Ended(tasks[t], "resolved")
    /\ tasks[t].op = "uploadDataSource"
    /\ tasks[t].file # DefaultFile
    /\ Len(dataSources) = 2
    /\ dataSources[2].data_source_id = tasks[t].call.upload.data_source_id
    /\ dataSources[2].row_count = tasks[t].file.row_count

\* the statuses a server error can carry
ServerStatuses == {404, 500}
\* what a caller can look at: the status and the message of the error
StatusAndMessage(e) == <<e.status, e.message>>

\* C23: the error a call that timed out fails with differs, in its status or
\* its message, from the error of a transport failure and from the error of
\* every server failure; so for apiService and so for IoTDataSandboxClient.
C23_TimeoutDistinguishable ==
  \A t \in Tasks :
    tasks[t].call.cause = "timeout" =>
      /\ tasks[t].call.status = ApiServiceError(AxiosError("timeout", 0)).status
      /\ \A status \in ServerStatuses :
           /\ StatusAndMessage(ApiServiceError(AxiosError("timeout", 0)))
                # StatusAndMessage(ApiServiceError(AxiosError("server", status)))
           /\ StatusAndMessage(ClientError("timeout", 0))
                # StatusAndMessage(ClientError("server", status))
      /\ StatusAndMessage(ApiServiceError(AxiosError("timeout", 0)))
           # StatusAndMessage(ApiServiceError(AxiosError("transport", 0)))
      /\ StatusAndMessage(ClientError("timeout", 0))
           # StatusAndMessage(ClientError("transport", 0))

\* the step is a call of the store function op with argument id
Called(op, id) ==
  /\ opCount' = opCount + 1
  /\ lastOp'.op = op
  /\ lastOp'.id = id

\* the invocations the step starts
StartedBy == {t \in Tasks : tasks'[t].state = "running" /\ tasks'[t] # tasks[t] /\ ~Running(t)}

\* C22: every call of fetchLayerData(id) starts one invocation with one
\* layer-data call for id, whether or not the cache has an entry for id; the
\* step that processes the success response makes the cache entry for id
\* equal to the response and leaves the other entries; a call of
\* getCachedLayerData changes no store and no server state and starts nothing.
C22_FetchLayerDataAlwaysCalls ==
  [][/\ \A id \in LayerIds :
          /\ Called("fetchLayerData", id)
               => /\ Cardinality(StartedBy) = 1
                  /\ \A t \in StartedBy :
                       /\ tasks'[t].op = "fetchLayerData"
                       /\ tasks'[t].id = id
                       /\ tasks'[t].call.st = "sent"
                       /\ tasks'[t].layersCall.st = "none"
                       /\ tasks'[t].layerDetails = <<>>
                       /\ tasks'[t].dataCalls = <<>>
          /\ Called("getCachedLayerData", id)
               => /\ StartedBy = {}
                  /\ UNCHANGED <<projVars, layerVars, dsVars, metaVars, uiVars, srvVars>>
     /\ \A t \in Tasks :
          Settles(t, "fetchLayerData", "resolved")
            => layerDataCache' = [layerDataCache EXCEPT ![tasks[t].id] = tasks[t].call.rows]]_vars

\* fetchLayerData has been called for a layer whose series is in the cache,
\* and the service is about to answer with another series
C22_Witness ==
  \E t \in Tasks :
    /\ Running(t)
    /\ tasks[t].op = "fetchLayerData"
    /\ tasks[t].call.st = "sent"
    /\ layerDataCache[tasks[t].id] # NoData
    /\ srvData[tasks[t].id] # layerDataCache[tasks[t].id]
    /\ srvData[tasks[t].id] # NoData

\* two loadProject invocations for different projects, both ended
TwoLoadsEnded ==
  \E t, u \in Tasks :
    /\ IsLoadProject(tasks[t]) /\ ~Running(t)
    /\ IsLoadProject(tasks[u]) /\ ~Running(u)
    /\ tasks[t].id # tasks[u].id

\* C24: when two loadProject calls for different projects have both settled
\* and nothing else is in flight, every layer of the Layer Cache belongs to
\* the selected project.
C24_OverlappingLoadsAgree ==
  (TwoLoadsEnded /\ Quiescent) =>
    \A i \in 1..Len(layers) : layers[i].project_id = selectedProjectId

\* C26: whenever no store call is in flight, currentProject and
\* selectedProjectId are both null or currentProject is the project selected.
C26_CurrentProjectIsSelected ==
  Quiescent => currentProject.project_id = selectedProjectId

\* C27: whenever no store call is in flight, every layer id with an entry in
\* the time-series cache is the id of a layer of the Layer Cache.
C27_SeriesKeysAreCachedLayers ==
  Quiescent =>
    \A l \in LayerIds : layerDataCache[l] # NoData => l \in LayerIdsOf(layers)

\* a function of the projects store other than the invocation in slot t is in
\* flight
OtherProjectsStoreCall(t) ==
  \E u \in Tasks \ {t} :
    /\ Running(u)
    /\ tasks[u].op \in {"fetchProjects", "createProject", "deleteProject", "loadProject"}

\* a loadProject invocation is in flight (one at most: each store call is
\* awaited before the next)
LoadInFlight == \E t \in Tasks : Running(t) /\ IsLoadProject(tasks[t])

\* C25: every loadProject invocation that is in flight ends, resolved or
\* rejected; and when one has just ended while no other function of the
\* projects store is in flight, loading is false.
C25_LoadProjectSettles ==
  /\ LoadInFlight ~> ~LoadInFlight
  /\ [](\A t \in Tasks :
          ((JustEnded(tasks[t], "resolved") \/ JustEnded(tasks[t], "rejected"))
             /\ ~OtherProjectsStoreCall(t))
            => loading = FALSE)

\* a load of a project with two layers has resolved though the time series of
\* one of them could not be fetched
C25_Witness ==
  \E t \in Tasks :
    /\ JustEnded(tasks[t], "resolved")
    /\ Len(tasks[t].dataCalls) = 2
    /\ \E i \in 1..2 : tasks[t].dataCalls[i].st = "rejected"
    /\ ~OtherProjectsStoreCall(t)
    /\ loading = FALSE

\* the invocation in slot t is one of handleCreate
IsHandleCreate(T) == T.op = "handleCreate"

\* the calls of the New Project workflow, in their order
WorkflowCalls == <<"createProject", "createLayer", "loadLayerCSV", "loadProject">>
WorkflowIndex(pc) == CHOOSE i \in 1..Len(WorkflowCalls) : WorkflowCalls[i] = pc

\* the loadProject invocation handleCreate awaits has rejected
LoadOfWorkflowEnded(T, state) ==
  \E u \in Tasks :
    /\ IsLoadProject(tasks[u])
    /\ tasks[u].id = T.project
    /\ tasks[u].state = state

\* a step of the workflow in slot t has failed: its Gateway call, or the
\* loadProject it awaits
WorkflowFailed(T) ==
  IF T.pc = "loadProject" THEN LoadOfWorkflowEnded(T, "rejected") ELSE T.call.st = "err"

\* the step issues the call at tasks'[t].pc
IssuesWorkflowCall(t) ==
  /\ IsHandleCreate(tasks'[t])
  /\ tasks'[t].state = "running"
  /\ ~(IsHandleCreate(tasks[t]) /\ Running(t) /\ tasks[t].pc = tasks'[t].pc)

\* C28: handleCreate issues createProject, createLayer, loadLayerCSV and
\* loadProject in that order, each in the step that processes the success of
\* the one before; the step that processes a failure issues nothing, sets
\* createError and leaves the dialog open; the step that processes the
\* success of loadProject closes the dialog with createError null; and
\* isCreating is true exactly while a handleCreate invocation is in flight.
C28_NewProjectWorkflow ==
  /\ [][\A t \in Tasks :
          /\ IssuesWorkflowCall(t) =>
               LET i == WorkflowIndex(tasks'[t].pc) IN
                 /\ IF i = 1
                    THEN ~(IsHandleCreate(tasks[t]) /\ Running(t))
                    ELSE /\ IsHandleCreate(tasks[t]) /\ Running(t)
                         /\ tasks[t].pc = WorkflowCalls[i - 1]
                         /\ tasks[t].call.st = "ok"
                 /\ IF i = 4
                    THEN /\ lastOp' = Op("loadProject", tasks'[t].project, "call")
                         /\ \E u \in StartedBy :
                              /\ IsLoadProject(tasks'[u])
                              /\ tasks'[u].id = tasks'[t].project
                    ELSE /\ tasks'[t].call = Sent
                         /\ StartedBy \subseteq {t}
          /\ (IsHandleCreate(tasks[t]) /\ Running(t) /\ tasks'[t].state # "running") =>
               /\ isCreating' = FALSE
               /\ StartedBy = {}
               /\ IF WorkflowFailed(tasks[t])
                  THEN /\ createError' # NullStr
                       /\ modalOpen /\ modalOpen'
                  ELSE /\ tasks[t].pc = "loadProject"
                       /\ LoadOfWorkflowEnded(tasks[t], "resolved")
                       /\ createError' = NullStr
                       /\ ~modalOpen'
     ]_vars
  /\ [](isCreating <=> \E t \in Tasks : IsHandleCreate(tasks[t]) /\ Running(t))

\* the workflow has run to its end and closed the dialog
C28_Witness ==
  \E t \in Tasks :
    /\ IsHandleCreate(tasks[t])
    /\ lastOp = Op("handleCreate", tasks[t].project, "resolved")
    /\ tasks[t].pc = "loadProject"
    /\ LoadOfWorkflowEnded(tasks[t], "resolved")
    /\ ~modalOpen /\ ~isCreating /\ createError = NullStr

\* the workflow has stopped at a failed createLayer call
C28_WitnessFailure ==
  \E t \in Tasks :
    /\ IsHandleCreate(tasks[t])
    /\ lastOp = Op("handleCreate", tasks[t].project, "resolved")
    /\ tasks[t].pc = "createLayer"
    /\ tasks[t].call.st = "rejected"
    /\ modalOpen /\ ~isCreating /\ createError # NullStr

\* the step calls deleteProject(p) of the projects store
CallsDeleteProject(p) ==
  \E t \in StartedBy : tasks'[t].op = "deleteProject" /\ tasks'[t].id = p

\* C29: a step that calls deleteProject(p) is a click on the Remove button of
\* p while p is in the confirming state, at least 300 ms after the click that
\* put p into that state; and confirmation is enabled only 300 ms or more
\* after that click (no timer of an earlier round enables it).
C29_DeleteNeedsSecondClickAfterDelay ==
  [][/\ \A p \in ProjectIds :
          CallsDeleteProject(p) =>
            /\ confirmingDeleteId = p
            /\ now >= confirmedAt + ConfirmDelay
     /\ (canConfirmDelete' /\ ~canConfirmDelete) => now >= confirmedAt + ConfirmDelay
    ]_vars

\* the metadata states layer l is in
MetadataStates(l) ==
  (IF l \in loadingMetadata THEN {"loading"} ELSE {})
    \cup (IF layerMetadata[l] # NoData THEN {"loaded"} ELSE {})
    \cup (IF l \in failedMetadata THEN {"failed"} ELSE {})

\* the fetchMetadata invocations for layer l whose request is in flight
MetadataRequests(l) ==
  {t \in Tasks : Running(t) /\ tasks[t].op = "fetchMetadata" /\ tasks[t].id = l}

\* C30: every layer id is in at most one of loadingMetadata, layerMetadata
\* and failedMetadata, and at most one metadata request for it is in flight,
\* whatever fetchMetadata calls the watcher has made.
C30_MetadataStatesExclusive ==
  \A l \in LayerIds :
    /\ Cardinality(MetadataStates(l)) <= 1
    /\ Cardinality(MetadataRequests(l)) <= 1

\* fetchMetadata was called again for a layer whose request is in flight, and
\* returned at once
C30_Witness ==
  \E l \in LayerIds :
    /\ lastOp = Op("fetchMetadata", l, "return")
    /\ MetadataStates(l) = {"loading"}
    /\ Cardinality(MetadataRequests(l)) = 1
====
